---- MODULE Spec2Model ----
(***************************************************************************)
(* A state-machine model of the elza_bot conversation engine               *)
(* (services/chat_service.py), its persistence store (storage.py) and the  *)
(* reminder scheduler (bot.py).                                            *)
(*                                                                         *)
(* Texts are sequences of Unicode code points, so that lower(), strip(),   *)
(* substring search and the date pattern are computed character by         *)
(* character as the Python code computes them.  Timestamps are records     *)
(* [year, month, day, minute]; the wall clock is `clock` minutes after     *)
(* Epoch.                                                                  *)
(***************************************************************************)
EXTENDS Integers, Sequences, FiniteSets, Bags, TLC

(***************************************************************************)
(* Text literals of chat_service.py (button labels, keywords) and the      *)
(* free-text inputs used to drive the model.                               *)
(***************************************************************************)
\* button labels and menu commands
L ==
  [TaroSpread |-> <<127183, 32, 1056, 1072, 1089, 1082, 1083, 1072, 1076, 32, 1058, 1072, 1088, 1086>>,  \* "U+1F0CF Расклад Таро"
   TarotMode |-> <<127183, 32, 1056, 1077, 1078, 1080, 1084, 32, 1090, 1072, 1088, 1086, 1083, 1086, 1075, 1072>>,  \* "U+1F0CF Режим таролога"
   Numerology |-> <<128290, 32, 1053, 1091, 1084, 1077, 1088, 1086, 1083, 1086, 1075, 1080, 1103>>,  \* "U+1F522 Нумерология"
   Horoscope |-> <<9810, 32, 1043, 1086, 1088, 1086, 1089, 1082, 1086, 1087>>,  \* "♒ Гороскоп"
   Podruzhka |-> <<128172, 32, 1055, 1086, 1076, 1088, 1091, 1078, 1082, 1072>>,  \* "U+1F4AC Подружка"
   Subscription |-> <<128142, 32, 1055, 1086, 1076, 1087, 1080, 1089, 1082, 1072>>,  \* "U+1F48E Подписка"
   HelpNo |-> <<8470, 65039, 32, 1055, 1086, 1084, 1086, 1097, 1100>>,  \* "№️ Помощь"
   Help |-> <<8505, 65039, 32, 1055, 1086, 1084, 1086, 1097, 1100>>,  \* "ℹ️ Помощь"
   TaroDay |-> <<1058, 1072, 1088, 1086, 32, 1085, 1072, 32, 1076, 1077, 1085, 1100>>,  \* "Таро на день"
   TaroLove |-> <<1058, 1072, 1088, 1086, 32, 1085, 1072, 32, 1083, 1102, 1073, 1086, 1074, 1100>>,  \* "Таро на любовь"
   BackToMenu |-> <<1053, 1072, 1079, 1072, 1076, 32, 1074, 32, 1084, 1077, 1085, 1102>>,  \* "Назад в меню"
   GetAccess |-> <<1055, 1086, 1083, 1091, 1095, 1080, 1090, 1100, 32, 1076, 1086, 1089, 1090, 1091, 1087>>,  \* "Получить доступ"
   EndTalk |-> <<1047, 1072, 1082, 1086, 1085, 1095, 1080, 1090, 1100, 32, 1088, 1072, 1079, 1075, 1086, 1074, 1086, 1088>>,  \* "Закончить разговор"
   CheckPayment |-> <<1055, 1088, 1086, 1074, 1077, 1088, 1080, 1090, 1100, 32, 1086, 1087, 1083, 1072, 1090, 1091>>,  \* "Проверить оплату"
   Month1 |-> <<49, 32, 1084, 1077, 1089, 1103, 1094>>,  \* "1 месяц"
   Month6 |-> <<54, 32, 1084, 1077, 1089, 1103, 1094, 1077, 1074, 32, 40, 45, 49, 48, 37, 41>>,  \* "6 месяцев (-10%)"
   Month12 |-> <<49, 50, 32, 1084, 1077, 1089, 1103, 1094, 1077, 1074, 32, 40, 45, 49, 48, 37, 41>>,  \* "12 месяцев (-10%)"
   DontKnow |-> <<1053, 1077, 32, 1079, 1085, 1072, 1102>>,  \* "Не знаю"
   Start |-> <<1057, 1090, 1072, 1088, 1090>>,  \* "Старт"
   ContactAdmin |-> <<1057, 1074, 1103, 1079, 1072, 1090, 1100, 1089, 1103, 32, 1089, 32, 1072, 1076, 1084, 1080, 1085, 1080, 1089, 1090, 1088, 1072, 1090, 1086, 1088, 1086, 1084>>,  \* "Связаться с администратором"
   OneMoreSpread |-> <<1057, 1076, 1077, 1083, 1072, 1090, 1100, 32, 1077, 1097, 1105, 32, 1088, 1072, 1089, 1082, 1083, 1072, 1076>>,  \* "Сделать ещё расклад"
   ToMenu |-> <<1042, 32, 1084, 1077, 1085, 1102>>,  \* "В меню"
   AskQuestion |-> <<1047, 1072, 1076, 1072, 1090, 1100, 32, 1074, 1086, 1087, 1088, 1086, 1089>>,  \* "Задать вопрос"
   AskAnother |-> <<1047, 1072, 1076, 1072, 1090, 1100, 32, 1077, 1097, 1105, 32, 1074, 1086, 1087, 1088, 1086, 1089>>,  \* "Задать ещё вопрос"
   Free |-> <<1041, 1077, 1089, 1087, 1083, 1072, 1090, 1085, 1086>>,  \* "Бесплатно"
   FullAnalysis |-> <<1055, 1086, 1083, 1085, 1099, 1081, 32, 1072, 1085, 1072, 1083, 1080, 1079>>,  \* "Полный анализ"
   FullHoroscope |-> <<1055, 1086, 1083, 1085, 1099, 1081, 32, 1075, 1086, 1088, 1086, 1089, 1082, 1086, 1087>>,  \* "Полный гороскоп"
   Other |-> <<1076, 1088, 1091, 1075, 1086, 1077>>]  \* "другое"

\* the replies is_positive accepts
W ==
  [start |-> <<1089, 1090, 1072, 1088, 1090>>,  \* "старт"
   da |-> <<1076, 1072>>,  \* "да"
   ok |-> <<111, 107>>,  \* "ok"
   okey |-> <<111, 107, 101, 121>>,  \* "okey"
   nachat |-> <<1085, 1072, 1095, 1072, 1090, 1100>>,  \* "начать"
   startEn |-> <<115, 116, 97, 114, 116>>,  \* "start"
   davai |-> <<1076, 1072, 1074, 1072, 1081>>,  \* "давай"
   gotovo |-> <<1075, 1086, 1090, 1086, 1074, 1086>>]  \* "готово"

\* the keyword stems is_distress_message looks for
D ==
  [suic |-> <<1089, 1091, 1080, 1094>>,  \* "суиц"
   samoub |-> <<1089, 1072, 1084, 1086, 1091, 1073>>,  \* "самоуб"
   ubyu |-> <<1091, 1073, 1100, 1102>>,  \* "убью"
   smert |-> <<1089, 1084, 1077, 1088, 1090, 1100>>,  \* "смерть"
   umeret |-> <<1091, 1084, 1077, 1088, 1077, 1090, 1100>>]  \* "умереть"

\* free-text inputs
X ==
  [Empty |-> <<>>,  \* ""
   DaUpper |-> <<1044, 1040>>,  \* "ДА"
   Net |-> <<1085, 1077, 1090>>,  \* "нет"
   Anna |-> <<1040, 1085, 1085, 1072>>,  \* "Анна"
   AnnaRaw |-> <<32, 1040, 1085, 1085, 1072, 32>>,  \* " Анна "
   Birth |-> <<48, 56, 46, 48, 57, 46, 49, 57, 57, 48>>,  \* "08.09.1990"
   BirthIso |-> <<49, 57, 57, 48, 45, 48, 57, 45, 48, 56>>,  \* "1990-09-08"
   BadDate |-> <<51, 49, 46, 48, 50, 46, 49, 57, 57, 48>>,  \* "31.02.1990"
   NotDate |-> <<56, 46, 57, 46, 49, 57, 57, 48>>,  \* "8.9.1990"
   Question |-> <<1041, 1091, 1076, 1077, 1084, 32, 1083, 1080, 32, 1084, 1099, 32, 1074, 1084, 1077, 1089, 1090, 1077, 63>>,  \* "Будем ли мы вместе?"
   Hello |-> <<1052, 1085, 1077, 32, 1075, 1088, 1091, 1089, 1090, 1085, 1086>>,  \* "Мне грустно"
   Distress |-> <<1053, 1077, 32, 1093, 1086, 1095, 1091, 32, 1078, 1080, 1090, 1100, 44, 32, 1093, 1086, 1095, 1091, 32, 1059, 1052, 1045, 1056, 1045, 1058, 1068>>,  \* "Не хочу жить, хочу УМЕРЕТЬ"
   Surname |-> <<1048, 1074, 1072, 1085, 1086, 1074, 1072>>,  \* "Иванова"
   SurnameDash |-> <<1048, 1074, 1072, 1085, 1086, 1074, 1072, 45, 1055, 1077, 1090, 1088, 1086, 1074, 1072>>,  \* "Иванова-Петрова"
   Time |-> <<48, 56, 58, 51, 48>>,  \* "08:30"
   BadTime |-> <<50, 53, 58, 48, 48>>,  \* "25:00"
   Retention0 |-> <<82, 69, 84, 69, 78, 84, 73, 79, 78, 95, 77, 69, 83, 83, 65, 71, 69, 83, 91, 48, 93>>,  \* "RETENTION_MESSAGES[0]"
   Retention2 |-> <<82, 69, 84, 69, 78, 84, 73, 79, 78, 95, 77, 69, 83, 83, 65, 71, 69, 83, 91, 50, 93>>,  \* "RETENTION_MESSAGES[2]"
   ThreeCards |-> <<1052, 1072, 1075, 32, 40, 1087, 1088, 1103, 1084, 1072, 1103, 41, 10, 1064, 1091, 1090, 32, 45, 32, 1087, 1077, 1088, 1077, 1074, 10, 1052, 1080, 1088, 32, 1086, 1073, 1088, 1072, 1090, 1085, 1072, 1103>>]  \* "Маг (прямая)", "Шут - перев", "Мир обратная" on three lines

PAYMENT_REMINDER_PREFIX == <<95, 95, 80, 65, 89, 77, 69, 78, 84, 95, 67, 72, 69, 67, 75, 95, 95>>  \* "__PAYMENT_CHECK__"

(***************************************************************************)
(* Python None, per column type.                                           *)
(***************************************************************************)
NoneText == <<-1>>
NoneTime == [year |-> 0, month |-> 0, day |-> 0, minute |-> 0]
NoneStr == "None"

Truthy(t) == t # NoneText /\ t # <<>>

(***************************************************************************)
(* str helpers                                                             *)
(***************************************************************************)
LowerChar(c) ==
  IF (c >= 65 /\ c <= 90) \/ (c >= 1040 /\ c <= 1071) THEN c + 32
  ELSE IF c = 1025 THEN 1105
  ELSE c

lower(t) == [i \in 1..Len(t) |-> LowerChar(t[i])]

IsSpace(c) == c \in {9, 10, 11, 12, 13, 32}

RECURSIVE lstrip(_)
lstrip(t) == IF t # <<>> /\ IsSpace(Head(t)) THEN lstrip(Tail(t)) ELSE t

RECURSIVE rstrip(_)
rstrip(t) ==
  IF t # <<>> /\ IsSpace(t[Len(t)]) THEN rstrip(SubSeq(t, 1, Len(t) - 1)) ELSE t

strip(t) == rstrip(lstrip(t))

Contains(t, w) ==
  \E i \in 0..(Len(t) - Len(w)) : SubSeq(t, i + 1, i + Len(w)) = w

Truncate(t, n) == IF Len(t) > n THEN SubSeq(t, 1, n) ELSE t

IsDigit(c) == c >= 48 /\ c <= 57

RECURSIVE ToInt(_)
ToInt(t) == IF t = <<>> THEN 0 ELSE 10 * ToInt(SubSeq(t, 1, Len(t) - 1)) + (t[Len(t)] - 48)

RECURSIVE Digits(_, _)
Digits(n, width) ==
  IF width = 0 THEN <<>> ELSE Digits(n \div 10, width - 1) \o <<48 + (n % 10)>>

(***************************************************************************)
(* calendar                                                                *)
(***************************************************************************)
IsLeap(y) == (y % 4 = 0 /\ y % 100 # 0) \/ y % 400 = 0

monthrange(y, m) ==
  IF m = 2 THEN (IF IsLeap(y) THEN 29 ELSE 28)
  ELSE IF m \in {4, 6, 9, 11} THEN 30
  ELSE 31

NextDay(d) ==
  IF d.day < monthrange(d.year, d.month) THEN [d EXCEPT !.day = d.day + 1]
  ELSE IF d.month < 12 THEN [d EXCEPT !.day = 1, !.month = d.month + 1]
  ELSE [d EXCEPT !.day = 1, !.month = 1, !.year = d.year + 1]

RECURSIVE AddDays(_, _)
AddDays(d, n) == IF n = 0 THEN d ELSE AddDays(NextDay(d), n - 1)

MinutesPerDay == 1440

timedelta(value, minutes) ==
  LET total == value.minute + minutes
  IN  [AddDays(value, total \div MinutesPerDay) EXCEPT !.minute = total % MinutesPerDay]

DateOf(ts) == [year |-> ts.year, month |-> ts.month, day |-> ts.day]

TimeLeq(a, b) ==
  \/ a.year < b.year
  \/ a.year = b.year /\ a.month < b.month
  \/ a.year = b.year /\ a.month = b.month /\ a.day < b.day
  \/ a.year = b.year /\ a.month = b.month /\ a.day = b.day /\ a.minute <= b.minute

\* month arithmetic that keeps the day of the month as it is
add_months_unclamped(value, months) ==
  LET month_index == value.month - 1 + months
      year == value.year + month_index \div 12
      month == (month_index % 12) + 1
  IN  [value EXCEPT !.year = year, !.month = month]

add_months(value, months) ==
  LET month_index == value.month - 1 + months
      year == value.year + month_index \div 12
      month == (month_index % 12) + 1
      day == IF value.day <= monthrange(year, month) THEN value.day
             ELSE monthrange(year, month)
  IN  [value EXCEPT !.year = year, !.month = month, !.day = day]

(***************************************************************************)
(* input validation                                                        *)
(***************************************************************************)
PositiveWords == {W.start, W.da, W.ok, W.okey, W.nachat, W.startEn, W.davai, W.gotovo}

is_positive(text) == lower(text) \in PositiveWords

DistressWords == {D.suic, D.samoub, D.ubyu, D.smert, D.umeret}

\* a distress check that forgets to lower-case the text
is_distress_message_case_sensitive(text) == \E word \in DistressWords : Contains(text, word)

is_distress_message(text) ==
  LET t == lower(text) IN \E word \in DistressWords : Contains(t, word)

DatePattern(text) ==
  /\ Len(text) = 10
  /\ \A i \in {1, 2, 4, 5, 7, 8, 9, 10} : IsDigit(text[i])
  /\ text[3] = 46
  /\ text[6] = 46

strptime(text) ==
  [year |-> ToInt(SubSeq(text, 7, 10)),
   month |-> ToInt(SubSeq(text, 4, 5)),
   day |-> ToInt(SubSeq(text, 1, 2))]

\* a check of the shape of the text alone
validate_date_pattern_only(text) == DatePattern(text)

validate_date(text) ==
  /\ DatePattern(text)
  /\ LET d == strptime(text)
     IN  /\ d.year >= 1
         /\ d.month >= 1 /\ d.month <= 12
         /\ d.day >= 1 /\ d.day <= monthrange(d.year, d.month)

\* a formatter that writes the day before the month
isoformat_day_first(d) ==
  Digits(d.year, 4) \o <<45>> \o Digits(d.day, 2) \o <<45>> \o Digits(d.month, 2)

isoformat(d) == Digits(d.year, 4) \o <<45>> \o Digits(d.month, 2) \o <<45>> \o Digits(d.day, 2)

validate_time(text) ==
  /\ Len(text) = 5
  /\ \A i \in {1, 2, 4, 5} : IsDigit(text[i])
  /\ text[3] = 58
  /\ ToInt(SubSeq(text, 1, 2)) < 24
  /\ ToInt(SubSeq(text, 4, 5)) < 60

RECURSIVE split(_, _)
split(t, cur) ==
  IF t = <<>> THEN (IF cur = <<>> THEN <<>> ELSE <<cur>>)
  ELSE IF IsSpace(Head(t)) THEN (IF cur = <<>> THEN <<>> ELSE <<cur>>) \o split(Tail(t), <<>>)
  ELSE split(Tail(t), Append(cur, Head(t)))

RECURSIVE join(_)
join(words) ==
  IF words = <<>> THEN <<>>
  ELSE IF Len(words) = 1 THEN Head(words)
  ELSE Head(words) \o <<32>> \o join(Tail(words))

normalize_name(text) == join(split(text, <<>>))

SYSTEM_COMMANDS ==
  {L.TaroSpread, L.TarotMode, L.Numerology, L.Horoscope, L.Podruzhka, L.Subscription,
   L.HelpNo, L.Help, L.TaroDay, L.TaroLove, L.BackToMenu, L.GetAccess, L.EndTalk,
   L.CheckPayment, L.Month1, L.Month6, L.Month12, L.DontKnow, L.Start, L.ContactAdmin,
   L.OneMoreSpread, L.ToMenu}

is_system_command(text) == text \in SYSTEM_COMMANDS

\* _SURNAME_RE: the class [A-Za-zА-Яа-яЁё\\-\\s'] of the raw pattern holds the
\* letters, the backslash (the range \-\) and the apostrophe; neither the
\* space nor the hyphen is in it.
SurnameChar(c) ==
  \/ (c >= 65 /\ c <= 90) \/ (c >= 97 /\ c <= 122)
  \/ (c >= 1040 /\ c <= 1103) \/ c = 1025 \/ c = 1105
  \/ c = 92 \/ c = 39

validate_surname(text) ==
  /\ text # <<>>
  /\ ~is_system_command(text)
  /\ Len(text) >= 2 /\ Len(text) <= 100
  /\ \A i \in 1..Len(text) : SurnameChar(text[i])

(***************************************************************************)
(* State                                                                   *)
(***************************************************************************)
VARIABLES
  users,                \* table users: set of rows, chat_id is the primary key
  tg_sessions,          \* table tg_sessions: set of rows [chat_id, state, data]
  taro_readings,        \* table taro_readings: bag of rows
  numerology_readings,  \* table numerology_readings: bag of rows
  horoscope_readings,   \* table horoscope_readings: bag of rows
  tarot_mode_logs,      \* table tarot_mode_logs: bag of rows
  chat_messages,        \* table chat_messages: bag of the rows whose meta carries a feature/source tag
  reminders,            \* table reminders: sequence of rows, id = position
  payments,             \* table payments: sequence of rows, id = position
  clock,                \* minutes elapsed since Epoch (datetime.now())
  due,                  \* bot._send_due_reminders: ids of the due reminders still to handle in this pass
  step,                 \* what the last operation did (observation only)
  scenario,             \* per chat: how far the inbound texts follow the onboarding scenario
  inbox,                \* messaging service: every update sent to the bot so far, update_id = position
  confirmed,            \* messaging service: the highest offset a getUpdates call has carried
  offset,               \* bot.main: the local variable offset
  offset_file,          \* the content of the offset file
  updates,              \* bot.main: the batch returned by the last get_updates
  index,                \* bot.main: how many updates of the batch the for loop has taken
  pc,                   \* bot.main: where the loop stands
  handled,              \* the update_ids for which handle_update has returned, in order (history)
  inflight              \* the user rows held in memory by an engine operation and by an admin request that have read and not yet saved

bot_vars == <<inbox, confirmed, offset, offset_file, updates, index, pc, handled>>

vars ==
  <<users, tg_sessions, taro_readings, numerology_readings, horoscope_readings,
    tarot_mode_logs, chat_messages, reminders, payments, clock, due, step, scenario,
    inbox, confirmed, offset, offset_file, updates, index, pc, handled, inflight>>

Chats == {101, 202}

Epoch == [year |-> 2024, month |-> 1, day |-> 31, minute |-> 1435]

now == timedelta(Epoch, clock)

today == DateOf(now)

(***************************************************************************)
(* storage.py                                                              *)
(***************************************************************************)
User(chat_id) ==
  [chat_id |-> chat_id, name |-> NoneText, surname |-> NoneText, birth_date |-> NoneText,
   birth_time |-> NoneText, subscription |-> NoneStr, subscription_expires_at |-> NoneTime,
   podruzhka_free_used_at |-> NoneTime, retention_message_sent_at |-> NoneTime]

EmptyData == [k \in {} |-> 0]

TgSession(chat_id) == [chat_id |-> chat_id, state |-> "start", data |-> EmptyData]

UserRows(chat_id) == {row \in users : row.chat_id = chat_id}

SessionRows(chat_id) == {row \in tg_sessions : row.chat_id = chat_id}

\* a get_or_create that inserts without looking for the row first
get_or_create_user_blind(chat_id) ==
  [row |-> User(chat_id), table |-> users \cup {User(chat_id)}]

\* SELECT ... WHERE chat_id = ? ; INSERT when no row came back
get_or_create_user(chat_id) ==
  IF UserRows(chat_id) # {}
  THEN [row |-> CHOOSE row \in UserRows(chat_id) : TRUE, table |-> users]
  ELSE [row |-> User(chat_id), table |-> users \cup {User(chat_id)}]

get_or_create_session(chat_id) ==
  IF SessionRows(chat_id) # {}
  THEN [row |-> CHOOSE row \in SessionRows(chat_id) : TRUE, table |-> tg_sessions]
  ELSE [row |-> TgSession(chat_id), table |-> tg_sessions \cup {TgSession(chat_id)}]

\* UPDATE users SET ... WHERE chat_id = ?
save_user(table, user) ==
  {IF row.chat_id = user.chat_id THEN user ELSE row : row \in table}

\* a write-back that saves session.data and leaves the stored state alone
save_session_data_only(table, session) ==
  {IF row.chat_id = session.chat_id THEN [row EXCEPT !.data = session.data] ELSE row :
     row \in table}

save_session(table, session) ==
  {IF row.chat_id = session.chat_id THEN session ELSE row : row \in table}

RECURSIVE BagSum(_, _)
BagSum(bag, rows) ==
  IF rows = {} THEN 0
  ELSE LET row == CHOOSE row \in rows : TRUE
       IN  CopiesIn(row, bag) + BagSum(bag, rows \ {row})

\* a count that forgets the readings of earlier days
count_taro_readings_today(chat_id, cards_count) ==
  BagSum(taro_readings,
         {row \in BagToSet(taro_readings) :
            /\ row.chat_id = chat_id /\ row.cards_count = cards_count
            /\ DateOf(row.created_at) = today})

count_taro_readings(chat_id, cards_count) ==
  BagSum(taro_readings,
         {row \in BagToSet(taro_readings) :
            row.chat_id = chat_id /\ row.cards_count = cards_count})

count_taro_readings_for_date(chat_id, cards_count, date_value) ==
  BagSum(taro_readings,
         {row \in BagToSet(taro_readings) :
            /\ row.chat_id = chat_id
            /\ row.cards_count = cards_count
            /\ DateOf(row.created_at) = date_value})

count_tarot_mode_for_date(chat_id, date_value) ==
  BagSum(tarot_mode_logs,
         {row \in BagToSet(tarot_mode_logs) :
            row.chat_id = chat_id /\ DateOf(row.created_at) = date_value})

\* a daily count that leaves the free variant out
count_numerology_readings_for_date_full(chat_id, date_value) ==
  BagSum(numerology_readings,
         {row \in BagToSet(numerology_readings) :
            /\ row.chat_id = chat_id /\ DateOf(row.created_at) = date_value
            /\ row.type = "full"})

count_numerology_readings_for_date(chat_id, date_value) ==
  BagSum(numerology_readings,
         {row \in BagToSet(numerology_readings) :
            row.chat_id = chat_id /\ DateOf(row.created_at) = date_value})

count_horoscope_readings_for_date(chat_id, date_value) ==
  BagSum(horoscope_readings,
         {row \in BagToSet(horoscope_readings) :
            row.chat_id = chat_id /\ DateOf(row.created_at) = date_value})

\* a daily count that looks at the user's rows instead of the replies
count_podruzhka_replies_for_date_user(chat_id, date_value) ==
  BagSum(chat_messages,
         {row \in BagToSet(chat_messages) :
            /\ row.chat_id = chat_id
            /\ row.role = "user"
            /\ row.feature = "podruzhka"
            /\ DateOf(row.created_at) = date_value})

count_podruzhka_replies_for_date(chat_id, date_value) ==
  BagSum(chat_messages,
         {row \in BagToSet(chat_messages) :
            /\ row.chat_id = chat_id
            /\ row.role = "assistant"
            /\ row.feature = "podruzhka"
            /\ DateOf(row.created_at) = date_value})

numerology_exists(chat_id, type_value) ==
  \E row \in BagToSet(numerology_readings) : row.chat_id = chat_id /\ row.type = type_value

horoscope_exists(chat_id, type_value) ==
  \E row \in BagToSet(horoscope_readings) : row.chat_id = chat_id /\ row.type = type_value

reminder_exists(chat_id) ==
  \E i \in 1..Len(reminders) : reminders[i].chat_id = chat_id

\* a scan that ignores the scheduled time
get_due_reminders_unsent(now_value) ==
  LET ids == {i \in 1..Len(reminders) : reminders[i].sent_at = NoneTime}
      RECURSIVE Asc(_)
      Asc(s) == IF s = {} THEN <<>>
                ELSE LET m == CHOOSE m \in s : \A o \in s : m <= o
                     IN  <<m>> \o Asc(s \ {m})
  IN  Asc(ids)

get_due_reminders(now_value) ==
  LET ids == {i \in 1..Len(reminders) :
                reminders[i].sent_at = NoneTime /\ TimeLeq(reminders[i].send_at, now_value)}
      RECURSIVE Asc(_)
      Asc(s) == IF s = {} THEN <<>>
                ELSE LET m == CHOOSE m \in s : \A o \in s : m <= o
                     IN  <<m>> \o Asc(s \ {m})
  IN  Asc(ids)

\* a pass that forgets which reminders it has handled
mark_reminder_sent_never(table, reminder_id) == table

mark_reminder_sent(table, reminder_id) ==
  [table EXCEPT ![reminder_id].sent_at = now]

NonePayment ==
  [chat_id |-> 0, yookassa_payment_id |-> NoneText, status |-> NoneStr, amount_rub |-> 0,
   months |-> 0, created_at |-> NoneTime, paid_at |-> NoneTime]

get_payment_by_id(yookassa_payment_id) ==
  LET ids == {i \in 1..Len(payments) : payments[i].yookassa_payment_id = yookassa_payment_id}
  IN  IF ids = {} THEN NonePayment
      ELSE payments[CHOOSE i \in ids : \A j \in ids : i <= j]

\* ORDER BY datetime(created_at) DESC, id DESC LIMIT 1
get_last_pending_payment(chat_id) ==
  LET ids == {i \in 1..Len(payments) :
                /\ payments[i].chat_id = chat_id
                /\ payments[i].status \in {"pending", "waiting_for_capture"}}
      Later(i, j) ==
        \/ ~TimeLeq(payments[i].created_at, payments[j].created_at)
        \/ payments[i].created_at = payments[j].created_at /\ i >= j
  IN  IF ids = {} THEN NonePayment
      ELSE payments[CHOOSE i \in ids : \A j \in ids : Later(i, j)]

\* an update of the status that leaves the paid timestamp alone
update_payment_status_only(table, yookassa_payment_id, status, paid_at) ==
  [i \in 1..Len(table) |->
     IF table[i].yookassa_payment_id = yookassa_payment_id
     THEN [table[i] EXCEPT !.status = status]
     ELSE table[i]]

update_payment_status(table, yookassa_payment_id, status, paid_at) ==
  [i \in 1..Len(table) |->
     IF table[i].yookassa_payment_id = yookassa_payment_id
     THEN [table[i] EXCEPT !.status = status, !.paid_at = paid_at]
     ELSE table[i]]

SubscriptionPriceRub == 200

get_subscription_price_rub == SubscriptionPriceRub

(***************************************************************************)
(* Outbound messages: a message is its template (an identifier standing    *)
(* for the literal text of the source), its keyboard and the feature tag   *)
(* of its meta.                                                            *)
(***************************************************************************)
NoKeyboard == <<>>

Keyboards(labels) ==
  [Start |-> <<<<labels.Start>>>>,
   Main |-> <<<<labels.TaroSpread, labels.TarotMode>>, <<labels.Numerology, labels.Horoscope>>, <<labels.Podruzhka, labels.Subscription>>, <<labels.Help>>>>,
   TaroMenu |-> <<<<labels.TaroDay, labels.TaroLove>>, <<labels.BackToMenu>>>>,
   Back |-> <<<<labels.BackToMenu>>>>,
   Upsell |-> <<<<labels.GetAccess, labels.BackToMenu>>>>,
   TaroPaid |-> <<<<labels.AskAnother, labels.BackToMenu>>>>,
   EndTalk |-> <<<<labels.EndTalk>>>>,
   DontKnow |-> <<<<labels.DontKnow>>>>,
   Help |-> <<<<labels.ContactAdmin>>, <<labels.BackToMenu>>>>,
   Numerology |-> <<<<labels.Free, labels.FullAnalysis>>, <<labels.BackToMenu>>>>,
   Horoscope |-> <<<<labels.Free, labels.FullHoroscope>>, <<labels.BackToMenu>>>>,
   Tariffs |-> <<<<labels.Month1, labels.Month6>>, <<labels.Month12, labels.BackToMenu>>>>,
   Payment |-> <<<<labels.CheckPayment>>, <<labels.BackToMenu>>>>]

Kb == Keyboards(L)

Msg(text, keyboard) == [text |-> text, keyboard |-> keyboard, feature |-> ""]

podruzhka_meta(msg) == [msg EXCEPT !.feature = "podruzhka"]

(***************************************************************************)
(* The in-flight (session, user) pair of one operation together with what  *)
(* the operation has done so far: messages sent, adapter calls made and    *)
(* the tables as written.                                                  *)
(***************************************************************************)
Begin(session, user) ==
  [session |-> session, user |-> user, sent |-> <<>>, ai_calls |-> 0, pay_calls |-> 0,
   taro_readings |-> taro_readings, numerology_readings |-> numerology_readings,
   horoscope_readings |-> horoscope_readings, tarot_mode_logs |-> tarot_mode_logs,
   chat_messages |-> chat_messages, reminders |-> reminders, payments |-> payments,
   ai_failed |-> FALSE, pay_failed |-> FALSE, reconciled |-> NoneText, activated |-> 0,
   observed |-> ""]

log_chat_message(e, role, feature, source) ==
  IF feature = "" /\ source \notin {"support_request", "reminder"} THEN e
  ELSE [e EXCEPT !.chat_messages =
          @ (+) SetToBag({[chat_id |-> e.user.chat_id, role |-> role, feature |-> feature,
                           source |-> source, created_at |-> now]})]

\* tg.send_message never raises (TgService._post swallows every exception),
\* so the assistant row is logged whether or not the message was delivered.
send_message(e, msg) ==
  log_chat_message([e EXCEPT !.sent = Append(@, msg)], "assistant", msg.feature, "")

SetState(e, state) == [e EXCEPT !.session.state = state]

SetData(e, key, value) ==
  [e EXCEPT !.session.data =
     [k \in DOMAIN @ \cup {key} |-> IF k = key THEN value ELSE @[k]]]

DataGet(data, key, default) == IF key \in DOMAIN data THEN data[key] ELSE default

create_reminder(e, message, send_at) ==
  [e EXCEPT !.reminders =
     Append(@, [chat_id |-> e.user.chat_id, message |-> message, send_at |-> send_at,
                sent_at |-> NoneTime])]

RetentionDelayMinutes == 360

schedule_retention(e) ==
  IF e.user.subscription = "paid" THEN e
  ELSE IF e.user.retention_message_sent_at # NoneTime THEN e
  ELSE IF \E i \in 1..Len(e.reminders) : e.reminders[i].chat_id = e.user.chat_id THEN e
  ELSE create_reminder(e, X.Retention0, timedelta(now, RetentionDelayMinutes))

\* ask_ai: one call of the completion adapter; `ai` is what the adapter did
AiFail == [ok |-> FALSE, content |-> <<>>]

ask_ai(e, ai) == [e EXCEPT !.ai_calls = @ + 1, !.ai_failed = ~ai.ok]

show_welcome(e) == send_message(e, Msg("welcome_consent", Kb.Start))

show_main_menu(e) == send_message(e, Msg("main_menu", Kb.Main))

render_numerology_menu(e) == send_message(e, Msg("numerology_menu", Kb.Numerology))

show_horoscope_menu(e) == send_message(e, Msg("horoscope_menu", Kb.Horoscope))

show_subscription_menu(e) == send_message(e, Msg("subscription_menu", Kb.Tariffs))

(***************************************************************************)
(* simple tarot                                                            *)
(***************************************************************************)
route_taro_menu(e, text) ==
  IF text = L.BackToMenu THEN SetState(show_main_menu(e), "main_menu")
  ELSE SetState(send_message(SetData(e, "taro_type", text), Msg("taro_suggest", Kb.Back)),
                "taro_ask_question")

TaroFreeLimit == 1
TaroPaidDailyLimit == 10

create_taro_reading(e, cards_count) ==
  [e EXCEPT !.taro_readings =
     @ (+) SetToBag({[chat_id |-> e.user.chat_id, cards_count |-> cards_count,
                      created_at |-> now]})]

handle_taro_question(e, text, ai) ==
  IF text = L.BackToMenu THEN SetState(show_main_menu(e), "main_menu")
  ELSE IF text = L.AskQuestion
  THEN SetState(send_message(e, Msg("taro_write_question", Kb.Back)), "taro_ask_question")
  ELSE
    LET cards == IF e.user.subscription = "paid" THEN 7 ELSE 3
    IN  IF /\ e.user.subscription # "paid"
           /\ count_taro_readings(e.user.chat_id, 3) >= TaroFreeLimit
        THEN SetState(send_message(e, Msg("taro_free_used", Kb.Upsell)), "main_menu")
        ELSE IF /\ e.user.subscription = "paid"
                /\ count_taro_readings_for_date(e.user.chat_id, 3, today) >= TaroPaidDailyLimit
        THEN SetState(send_message(e, Msg("taro_quota", Kb.Back)), "main_menu")
        ELSE
          LET e1 == send_message(e, Msg("taro_wait", NoKeyboard))
              e2 == ask_ai(e1, ai)
              e3 == create_taro_reading(e2, cards)
          IN  IF e.user.subscription = "paid"
              THEN SetState(send_message(e3, Msg("taro_result", Kb.TaroPaid)), "taro_menu")
              ELSE SetState(schedule_retention(send_message(e3, Msg("taro_result", Kb.Upsell))),
                            "main_menu")

(***************************************************************************)
(* companion chat                                                          *)
(***************************************************************************)
PODRUZHKA_DAILY_LIMIT == 30

handle_podruzhka_free(e, text, ai) ==
  IF text = L.EndTalk
  THEN SetState(show_main_menu(send_message(e, Msg("podruzhka_bye", NoKeyboard))), "main_menu")
  ELSE IF is_distress_message(text)
  THEN send_message(e, Msg("podruzhka_safety", Kb.EndTalk))
  ELSE
    LET e1 == ask_ai(e, ai)
    IN  IF ~ai.ok
        THEN SetState(send_message(e1, Msg("podruzhka_free_fallback", Kb.Back)), "main_menu")
        ELSE
          LET e2 == send_message(e1, podruzhka_meta(Msg("podruzhka_free_reply", Kb.Upsell)))
              e3 == [e2 EXCEPT !.user.podruzhka_free_used_at = now]
          IN  SetState(schedule_retention(e3), "main_menu")

handle_podruzhka_chat(e, text, ai) ==
  IF text = L.EndTalk
  THEN SetState(show_main_menu(send_message(e, Msg("podruzhka_bye", NoKeyboard))), "main_menu")
  ELSE IF is_distress_message(text)
  THEN send_message(e, Msg("podruzhka_safety", Kb.EndTalk))
  ELSE IF count_podruzhka_replies_for_date(e.user.chat_id, today) >= PODRUZHKA_DAILY_LIMIT
  THEN SetState(show_main_menu(send_message(e, Msg("podruzhka_limit", Kb.Back))), "main_menu")
  ELSE
    LET e1 == ask_ai(e, ai)
    IN  IF ~ai.ok
        THEN SetState(send_message(e1, Msg("podruzhka_chat_fallback", Kb.EndTalk)),
                      "podruzhka_chat")
        ELSE SetState(send_message(e1, podruzhka_meta(Msg("podruzhka_reply", Kb.EndTalk))),
                      "podruzhka_chat")

(***************************************************************************)
(* numerology and horoscope                                                *)
(***************************************************************************)
NumerologyDailyLimit == 10
HoroscopeDailyLimit == 10

create_numerology_reading(e, type_value) ==
  [e EXCEPT !.numerology_readings =
     @ (+) SetToBag({[chat_id |-> e.user.chat_id, type |-> type_value,
                      created_at |-> now]})]

create_horoscope_reading(e, type_value) ==
  [e EXCEPT !.horoscope_readings =
     @ (+) SetToBag({[chat_id |-> e.user.chat_id, type |-> type_value,
                      created_at |-> now]})]

handle_numerology_free(e, ai) ==
  IF e.user.subscription # "paid" /\ numerology_exists(e.user.chat_id, "money_code")
  THEN SetState(send_message(e, Msg("numerology_free_used", Kb.Upsell)), "main_menu")
  ELSE IF /\ e.user.subscription = "paid"
          /\ count_numerology_readings_for_date(e.user.chat_id, today) >= NumerologyDailyLimit
  THEN SetState(send_message(e, Msg("numerology_quota", Kb.Back)), "main_menu")
  ELSE
    LET e1 == ask_ai(send_message(e, Msg("numerology_wait", NoKeyboard)), ai)
        e2 == schedule_retention(send_message(e1, Msg("numerology_money_code", Kb.Upsell)))
    IN  SetState(create_numerology_reading(e2, "money_code"), "main_menu")

\* a full analysis that does not look at the subscription
handle_numerology_paid_open(e, ai) ==
  IF count_numerology_readings_for_date(e.user.chat_id, today) >= NumerologyDailyLimit
  THEN SetState(send_message(e, Msg("numerology_quota", Kb.Back)), "numerology_menu")
  ELSE
    LET e1 == ask_ai(send_message(e, Msg("numerology_wait_full", NoKeyboard)), ai)
        e2 == send_message(e1, Msg("numerology_full", Kb.Back))
    IN  SetState(create_numerology_reading(e2, "full"), "numerology_menu")

handle_numerology_paid(e, ai) ==
  IF e.user.subscription # "paid"
  THEN SetState(send_message(e, Msg("numerology_paid_only", Kb.Upsell)), "numerology_menu")
  ELSE IF count_numerology_readings_for_date(e.user.chat_id, today) >= NumerologyDailyLimit
  THEN SetState(send_message(e, Msg("numerology_quota", Kb.Back)), "numerology_menu")
  ELSE
    LET e1 == ask_ai(send_message(e, Msg("numerology_wait_full", NoKeyboard)), ai)
        e2 == send_message(e1, Msg("numerology_full", Kb.Back))
    IN  SetState(create_numerology_reading(e2, "full"), "numerology_menu")

handle_horoscope_free(e, ai) ==
  IF e.user.subscription # "paid" /\ horoscope_exists(e.user.chat_id, "daily")
  THEN SetState(send_message(e, Msg("horoscope_free_used", Kb.Upsell)), "main_menu")
  ELSE IF /\ e.user.subscription = "paid"
          /\ count_horoscope_readings_for_date(e.user.chat_id, today) >= HoroscopeDailyLimit
  THEN SetState(send_message(e, Msg("horoscope_quota", Kb.Back)), "main_menu")
  ELSE
    LET e1 == ask_ai(send_message(e, Msg("horoscope_wait", NoKeyboard)), ai)
        e2 == schedule_retention(send_message(e1, Msg("horoscope_daily", Kb.Upsell)))
    IN  SetState(create_horoscope_reading(e2, "daily"), "main_menu")

\* a full horoscope that is refused once the paid period is over
handle_horoscope_paid_until_expiry(e, ai) ==
  IF \/ e.user.subscription # "paid"
     \/ (e.user.subscription_expires_at # NoneTime
         /\ TimeLeq(e.user.subscription_expires_at, now))
  THEN SetState(send_message(e, Msg("horoscope_paid_only", Kb.Upsell)), "horoscope_menu")
  ELSE IF count_horoscope_readings_for_date(e.user.chat_id, today) >= HoroscopeDailyLimit
  THEN SetState(send_message(e, Msg("horoscope_quota", Kb.Back)), "horoscope_menu")
  ELSE
    LET e1 == ask_ai(send_message(e, Msg("horoscope_wait_full", NoKeyboard)), ai)
        e2 == send_message(e1, Msg("horoscope_full", Kb.Back))
    IN  SetState(create_horoscope_reading(e2, "full"), "horoscope_menu")

handle_horoscope_paid(e, ai) ==
  IF e.user.subscription # "paid"
  THEN SetState(send_message(e, Msg("horoscope_paid_only", Kb.Upsell)), "horoscope_menu")
  ELSE IF count_horoscope_readings_for_date(e.user.chat_id, today) >= HoroscopeDailyLimit
  THEN SetState(send_message(e, Msg("horoscope_quota", Kb.Back)), "horoscope_menu")
  ELSE
    LET e1 == ask_ai(send_message(e, Msg("horoscope_wait_full", NoKeyboard)), ai)
        e2 == send_message(e1, Msg("horoscope_full", Kb.Back))
    IN  SetState(create_horoscope_reading(e2, "full"), "horoscope_menu")

route_numerology_menu(e, text, ai) ==
  IF text = L.Free THEN handle_numerology_free(e, ai)
  ELSE IF text = L.FullAnalysis THEN handle_numerology_paid(e, ai)
  ELSE IF text = L.BackToMenu THEN SetState(show_main_menu(e), "main_menu")
  ELSE render_numerology_menu(e)

route_horoscope_menu(e, text, ai) ==
  IF text = L.Free THEN handle_horoscope_free(e, ai)
  ELSE IF text = L.FullHoroscope THEN handle_horoscope_paid(e, ai)
  ELSE IF text = L.BackToMenu THEN SetState(show_main_menu(e), "main_menu")
  ELSE show_horoscope_menu(e)

(***************************************************************************)
(* subscription and payment                                                *)
(***************************************************************************)
subscription_amounts(months) ==
  IF months = 1 THEN get_subscription_price_rub
  ELSE (get_subscription_price_rub * months * 9 + 5) \div 10

\* the id the payment adapter issues for the n-th payment it creates: "pay-n"
PaymentId(n) == <<112, 97, 121, 45>> \o Digits(n, 1)

Str(n) == IF n < 10 THEN Digits(n, 1) ELSE Digits(n, 2)

PaymentCheckMinutes == <<5, 10>>

payment_payload(payment_id, minutes) ==
  PAYMENT_REMINDER_PREFIX \o <<124>> \o payment_id \o <<124>> \o Str(minutes)

schedule_payment_checks(e, payment_id) ==
  create_reminder(
    create_reminder(e, payment_payload(payment_id, PaymentCheckMinutes[1]),
                    timedelta(now, PaymentCheckMinutes[1])),
    payment_payload(payment_id, PaymentCheckMinutes[2]),
    timedelta(now, PaymentCheckMinutes[2]))

create_payment_record(e, payment_id, status, amount_rub, months) ==
  [e EXCEPT !.payments =
     Append(@, [chat_id |-> e.user.chat_id, yookassa_payment_id |-> payment_id,
                status |-> status, amount_rub |-> amount_rub, months |-> months,
                created_at |-> now, paid_at |-> NoneTime])]

\* a start of payment that says nothing when the adapter raises
start_payment_silent(e, months, amount_rub, pay) ==
  LET e1 == [e EXCEPT !.pay_calls = @ + 1]
  IN  IF pay = "error"
      THEN SetState([e1 EXCEPT !.pay_failed = TRUE], "main_menu")
      ELSE
        LET payment_id == PaymentId(Len(e.payments) + 1)
            e2 == create_payment_record(e1, payment_id, "pending", amount_rub, months)
            e3 == schedule_payment_checks(e2, payment_id)
            e4 == SetData(SetData(e3, "payment_id", payment_id), "payment_months", months)
        IN  SetState(send_message(e4, Msg("payment_link", Kb.Payment)), "await_payment")

\* `pay` is what the payment adapter did: "error" when it raised, else the
\* status string it returned; a payment is created with status pending.
start_payment(e, months, amount_rub, pay) ==
  LET e1 == [e EXCEPT !.pay_calls = @ + 1]
  IN  IF pay = "error"
      THEN SetState(send_message([e1 EXCEPT !.pay_failed = TRUE],
                                 Msg("payment_create_failed", Kb.Back)),
                    "main_menu")
      ELSE
        LET payment_id == PaymentId(Len(e.payments) + 1)
            e2 == create_payment_record(e1, payment_id, "pending", amount_rub, months)
            e3 == schedule_payment_checks(e2, payment_id)
            e4 == SetData(SetData(e3, "payment_id", payment_id), "payment_months", months)
        IN  SetState(send_message(e4, Msg("payment_link", Kb.Payment)), "await_payment")

route_subscription_menu(e, text, pay) ==
  IF text = L.Month1 THEN start_payment(e, 1, subscription_amounts(1), pay)
  ELSE IF text = L.Month6 THEN start_payment(e, 6, subscription_amounts(6), pay)
  ELSE IF text = L.Month12 THEN start_payment(e, 12, subscription_amounts(12), pay)
  ELSE IF text = L.BackToMenu THEN SetState(show_main_menu(e), "main_menu")
  ELSE SetState(show_subscription_menu(e), "subscription_menu")

\* an activation that extends an existing expiry instead of starting from now
activate_subscription_stacking(user, months) ==
  [user EXCEPT !.subscription = "paid",
               !.subscription_expires_at =
                  add_months(IF @ # NoneTime THEN @ ELSE now, months)]

activate_subscription(user, months) ==
  [user EXCEPT !.subscription = "paid",
               !.subscription_expires_at = add_months(now, months)]

\* a reconciliation that reports a pending payment to the user whoever asked
reconcile_chatty(e, payment, payment_id, notify_pending, notify_errors, pay) ==
  LET e1 == [e EXCEPT !.pay_calls = @ + 1, !.pay_failed = (pay = "error"),
                      !.observed = IF pay = "error" THEN "" ELSE pay]
  IN  IF pay = "error"
      THEN (IF notify_errors THEN send_message(e1, Msg("payment_check_failed", NoKeyboard))
            ELSE e1)
      ELSE IF pay = "succeeded"
      THEN
        LET months == IF payment # NonePayment THEN payment.months
                      ELSE DataGet(e.session.data, "payment_months", 1)
            e2 == [e1 EXCEPT !.user = activate_subscription(@, months),
                             !.activated = months,
                             !.payments = update_payment_status(@, payment_id, pay, now)]
            e3 == send_message(e2, Msg("payment_succeeded", NoKeyboard))
        IN  SetState(show_main_menu(e3), "main_menu")
      ELSE IF pay = "canceled"
      THEN
        LET e2 == [e1 EXCEPT !.payments = update_payment_status(@, payment_id, pay, NoneTime)]
        IN  SetState(send_message(e2, Msg("payment_canceled", Kb.Tariffs)), "subscription_menu")
      ELSE
        LET e2 == [e1 EXCEPT !.payments = update_payment_status(@, payment_id, pay, NoneTime)]
        IN  SetState(send_message(e2, Msg("payment_pending", Kb.Payment)), "await_payment")

\* _process_payment_status after the early return: ask the adapter and act
reconcile(e, payment, payment_id, notify_pending, notify_errors, pay) ==
  LET e1 == [e EXCEPT !.pay_calls = @ + 1, !.pay_failed = (pay = "error"),
                      !.observed = IF pay = "error" THEN "" ELSE pay]
  IN  IF pay = "error"
      THEN (IF notify_errors THEN send_message(e1, Msg("payment_check_failed", NoKeyboard))
            ELSE e1)
      ELSE IF pay = "succeeded"
      THEN
        LET months == IF payment # NonePayment THEN payment.months
                      ELSE DataGet(e.session.data, "payment_months", 1)
            e2 == [e1 EXCEPT !.user = activate_subscription(@, months),
                             !.activated = months,
                             !.payments = update_payment_status(@, payment_id, pay, now)]
            e3 == send_message(e2, Msg("payment_succeeded", NoKeyboard))
        IN  SetState(show_main_menu(e3), "main_menu")
      ELSE IF pay = "canceled"
      THEN
        LET e2 == [e1 EXCEPT !.payments = update_payment_status(@, payment_id, pay, NoneTime)]
        IN  SetState(send_message(e2, Msg("payment_canceled", Kb.Tariffs)), "subscription_menu")
      ELSE
        LET e2 == [e1 EXCEPT !.payments = update_payment_status(@, payment_id, pay, NoneTime)]
            e3 == IF notify_pending THEN send_message(e2, Msg("payment_pending", Kb.Payment))
                  ELSE e2
        IN  SetState(e3, "await_payment")

\* a reconciliation that asks the adapter again whatever the record says
process_payment_status_recheck(e0, payment_id, notify_pending, notify_errors, pay) ==
  reconcile([e0 EXCEPT !.reconciled = payment_id], get_payment_by_id(payment_id),
            payment_id, notify_pending, notify_errors, pay)

process_payment_status(e0, payment_id, notify_pending, notify_errors, pay) ==
  LET e == [e0 EXCEPT !.reconciled = payment_id]
      payment == get_payment_by_id(payment_id)
  IN  IF payment # NonePayment /\ payment.status = "succeeded" THEN e
      ELSE reconcile(e, payment, payment_id, notify_pending, notify_errors, pay)

handle_payment_status(e, text, pay) ==
  IF text = L.BackToMenu THEN SetState(show_main_menu(e), "main_menu")
  ELSE IF text \notin {L.CheckPayment, L.Month1, L.Month6, L.Month12}
  THEN send_message(e, Msg("payment_press_check", NoKeyboard))
  ELSE IF text \in {L.Month1, L.Month6, L.Month12}
  THEN route_subscription_menu(e, text, pay)
  ELSE
    LET stored == DataGet(e.session.data, "payment_id", NoneText)
        payment_id == IF Truthy(stored) THEN stored
                      ELSE get_last_pending_payment(e.user.chat_id).yookassa_payment_id
    IN  IF ~Truthy(payment_id)
        THEN SetState(send_message(e, Msg("payment_not_found", Kb.Tariffs)), "subscription_menu")
        ELSE process_payment_status(e, payment_id, TRUE, TRUE, pay)

(***************************************************************************)
(* tarologist mode                                                         *)
(***************************************************************************)
\* literals of the tarologist mode, as code points; Fallback is the first line
\* of build_tarot_mode_spread_fallback, the only one with a "(N kart" pattern
T ==
  [kart |-> <<1082, 1072, 1088, 1090>>,  \* "карт"
   pryam |-> <<1087, 1088, 1103, 1084>>,  \* "прям"
   perev |-> <<1087, 1077, 1088, 1077, 1074>>,  \* "перев"
   obrat |-> <<1086, 1073, 1088, 1072, 1090>>,  \* "обрат"
   revers |-> <<114, 101, 118, 101, 114, 115>>,  \* "revers"
   Upright |-> <<1087, 1088, 1103, 1084, 1072, 1103>>,  \* "прямая"
   Reversed |-> <<1087, 1077, 1088, 1077, 1074, 1105, 1088, 1085, 1091, 1090, 1072, 1103>>,  \* "перевёрнутая"
   EmptyCard |-> <<1087, 1091, 1089, 1090, 1072, 1103, 32, 1082, 1072, 1088, 1090, 1072>>,  \* "пустая карта"
   Dots |-> <<46, 46, 46>>,  \* "..."
   Ellipsis |-> <<8230>>,  \* "U+2026"
   Fallback |-> <<1056, 1072, 1089, 1082, 1083, 1072, 1076, 32, 8220, 1060, 1086, 1082, 1091, 1089, 32, 1080, 32, 1087, 1077, 1088, 1089, 1087, 1077, 1082, 1090, 1080, 1074, 1072, 8221, 32, 40, 53, 32, 1082, 1072, 1088, 1090, 41>>,  \* "Расклад U+201CФокус и перспективаU+201D (5 карт)"
   Relations |-> <<1086, 1090, 1085, 1086, 1096, 1077, 1085, 1080, 1103>>,  \* "отношения"
   Work |-> <<1088, 1072, 1073, 1086, 1090, 1072>>,  \* "работа"
   Money |-> <<1076, 1077, 1085, 1100, 1075, 1080>>,  \* "деньги"
   Choice |-> <<1074, 1099, 1073, 1086, 1088>>,  \* "выбор"
   Now |-> <<1089, 1077, 1081, 1095, 1072, 1089>>,  \* "сейчас"
   Week |-> <<1085, 1077, 1076, 1077, 1083, 1103>>,  \* "неделя"
   Month |-> <<1084, 1077, 1089, 1103, 1094>>,  \* "месяц"
   Quarter |-> <<1090, 1088, 1080, 32, 1084, 1077, 1089, 1103, 1094, 1072>>,  \* "три месяца"
   HalfYear |-> <<1087, 1086, 1083, 32, 1075, 1086, 1076, 1072>>,  \* "пол года"
   Year |-> <<1075, 1086, 1076>>,  \* "год"
   QMarks |-> <<63, 32, 63, 63, 63, 63>>]  \* "? ????"

placeholders ==
  {<<1087, 1091, 1089, 1090, 1072, 1103>>,  \* "пустая"
   <<1087, 1091, 1089, 1090, 1086>>,  \* "пусто"
   <<1087, 1091, 1089, 1090, 1072, 1103, 32, 1082, 1072, 1088, 1090, 1072>>,  \* "пустая карта"
   <<1087, 1088, 1086, 1087, 1091, 1089, 1082>>,  \* "пропуск"
   <<1087, 1088, 1086, 1087, 1091, 1089, 1082, 32, 1082, 1072, 1088, 1090, 1099>>,  \* "пропуск карты"
   <<1085, 1077, 1090, 32, 1082, 1072, 1088, 1090, 1099>>,  \* "нет карты"
   <<1085, 1077, 1090>>,  \* "нет"
   <<45>>}  \* "-"

TarotKeyboards(labels, topics) ==
  [Topic |-> <<<<topics.Relations, topics.Work, topics.Money>>, <<topics.Choice, labels.Other>>, <<labels.ToMenu>>>>,
   Timeframe |-> <<<<topics.Now, topics.Week, topics.Month>>, <<topics.Quarter, topics.HalfYear, topics.Year>>, <<labels.ToMenu>>>>,
   Cards |-> <<<<topics.QMarks>>>>,
   Done |-> <<<<labels.OneMoreSpread, labels.ToMenu>>>>,
   ToMenu |-> <<<<labels.ToMenu>>>>]

KbT == TarotKeyboards(L, T)

TAROT_MODE_FREE_DAILY_LIMIT == 1
TAROT_MODE_PAID_DAILY_LIMIT == 5

\* \w of the orientation pattern: letters, digits and the underscore
IsWordChar(c) ==
  \/ IsDigit(c) \/ c = 95
  \/ (c >= 65 /\ c <= 90) \/ (c >= 97 /\ c <= 122)
  \/ (c >= 1040 /\ c <= 1103) \/ c = 1025 \/ c = 1105

\* the length of the longest prefix of t whose characters all satisfy P
LeadingRun(t, P(_)) ==
  CHOOSE n \in 0..Len(t) :
    /\ \A i \in 1..n : P(t[i])
    /\ n = Len(t) \/ ~P(t[n + 1])

DropFirst(t, n) == SubSeq(t, n + 1, Len(t))

Min(S) == CHOOSE x \in S : \A y \in S : x <= y

\* re.search(r"\((\d+)\s*kart", spread_text, re.IGNORECASE): the places where
\* "(", digits, optional blanks and the word begin
CardsCountMatches(t) ==
  {i \in 1..Len(t) :
     /\ t[i] = 40
     /\ LET after == DropFirst(t, i)
            d == LeadingRun(after, IsDigit)
            rest == DropFirst(after, d)
            word == DropFirst(rest, LeadingRun(rest, IsSpace))
        IN  /\ d >= 1
            /\ Len(word) >= Len(T.kart)
            /\ lower(SubSeq(word, 1, Len(T.kart))) = T.kart}

\* the number of the pattern taken as it stands
extract_tarot_spread_cards_count_unclamped(spread_text) ==
  IF CardsCountMatches(spread_text) = {} THEN 5
  ELSE LET after == DropFirst(spread_text, Min(CardsCountMatches(spread_text)))
       IN  ToInt(SubSeq(after, 1, LeadingRun(after, IsDigit)))

extract_tarot_spread_cards_count(spread_text) ==
  IF CardsCountMatches(spread_text) = {} THEN 5
  ELSE LET after == DropFirst(spread_text, Min(CardsCountMatches(spread_text)))
           value == ToInt(SubSeq(after, 1, LeadingRun(after, IsDigit)))
       IN  IF 3 <= value /\ value <= 7 THEN value ELSE 5

\* str.splitlines
RECURSIVE splitlines(_, _)
splitlines(t, cur) ==
  IF t = <<>> THEN (IF cur = <<>> THEN <<>> ELSE <<cur>>)
  ELSE IF Head(t) \in {10, 11, 12, 13, 28, 29, 30, 133, 8232, 8233}
  THEN <<cur>> \o splitlines(Tail(t), <<>>)
  ELSE splitlines(Tail(t), Append(cur, Head(t)))

\* re.sub(r"^\d+[\).\-\s]*", "", cleaned)
strip_numbering(t) ==
  LET IsNumberingMark(c) == c \in {41, 46, 45} \/ IsSpace(c)
      d == LeadingRun(t, IsDigit)
  IN  IF d = 0 THEN t
      ELSE DropFirst(DropFirst(t, d), LeadingRun(DropFirst(t, d), IsNumberingMark))

\* pattern_paren ^(.+?)\s*\(([^)]+)\)\s*$ on a stripped line: the "(" it can open at
ParenMatches(c) ==
  {p \in 2..(Len(c) - 2) :
     /\ c[p] = 40
     /\ c[Len(c)] = 41
     /\ \A i \in (p + 1)..(Len(c) - 1) : c[i] # 41}

\* pattern_dash ^(.+?)\s*[-–—]\s*(.+)$: the dash it can split at
DashMatches(c) == {p \in 2..(Len(c) - 1) : c[p] \in {45, 8211, 8212}}

\* orientation_re: \b(pryam\w*|perev\w*|obrat\w*|revers\w*)\b, letter case ignored
OrientationMatches(c) ==
  {s \in 1..Len(c) :
     /\ s = 1 \/ ~IsWordChar(c[s - 1])
     /\ \E stem \in {T.pryam, T.perev, T.obrat, T.revers} :
          /\ s + Len(stem) - 1 <= Len(c)
          /\ lower(SubSeq(c, s, s + Len(stem) - 1)) = stem}

\* str.strip(" -")
RECURSIVE strip_chars(_)
strip_chars(t) ==
  IF t # <<>> /\ Head(t) \in {32, 45} THEN strip_chars(Tail(t))
  ELSE IF t # <<>> /\ t[Len(t)] \in {32, 45} THEN strip_chars(SubSeq(t, 1, Len(t) - 1))
  ELSE t

\* name and raw orientation of one cleaned line, NoneText where the code has None
split_card(c) ==
  IF ParenMatches(c) # {}
  THEN LET p == Min(ParenMatches(c))
       IN  [name |-> strip(SubSeq(c, 1, p - 1)),
            orientation_raw |-> strip(SubSeq(c, p + 1, Len(c) - 1))]
  ELSE IF DashMatches(c) # {}
  THEN LET p == Min(DashMatches(c))
       IN  [name |-> strip(SubSeq(c, 1, p - 1)),
            orientation_raw |-> strip(DropFirst(c, p))]
  ELSE IF OrientationMatches(c) # {}
  THEN LET s == Min(OrientationMatches(c))
           end == s + LeadingRun(DropFirst(c, s - 1), IsWordChar)
       IN  [name |-> strip_chars(SubSeq(c, 1, s - 1) \o DropFirst(c, end - 1)),
            orientation_raw |-> strip(SubSeq(c, s, end - 1))]
  ELSE [name |-> NoneText, orientation_raw |-> NoneText]

\* one iteration of the loop of _parse_tarot_cards: the line is skipped, makes
\* the whole parse fail, or yields a card
card_of(line, cleaned, parts) ==
  LET raw == lower(parts.orientation_raw)
  IN  IF line \in {T.Dots, T.Ellipsis} \/ cleaned = <<>> THEN [kind |-> "skip"]
      ELSE IF lower(cleaned) \in placeholders
      THEN [kind |-> "card", name |-> T.EmptyCard, orientation |-> T.Upright]
      ELSE IF ~Truthy(parts.name) \/ ~Truthy(parts.orientation_raw) THEN [kind |-> "fail"]
      ELSE IF lower(parts.name) \in placeholders THEN [kind |-> "skip"]
      ELSE IF Contains(raw, T.pryam)
      THEN [kind |-> "card", name |-> parts.name, orientation |-> T.Upright]
      ELSE IF Contains(raw, T.perev) \/ Contains(raw, T.obrat) \/ Contains(raw, T.revers)
      THEN [kind |-> "card", name |-> parts.name, orientation |-> T.Reversed]
      ELSE [kind |-> "fail"]

parse_card_line(line) ==
  LET cleaned == strip(strip_numbering(strip(join(split(line, <<>>)))))
  IN  card_of(line, cleaned, split_card(cleaned))

\* the end of _parse_tarot_cards: None unless every line was skipped or gave a
\* card and at least one card was found (ok is FALSE where the code returns None)
cards_of(lines, parsed) ==
  LET IsCard(r) == r.kind = "card"
      found == SelectSeq(parsed, IsCard)
      cards == [i \in 1..Len(found) |->
                  [name |-> found[i].name, orientation |-> found[i].orientation]]
  IN  IF lines = <<>> \/ (\E i \in 1..Len(parsed) : parsed[i].kind = "fail") \/ cards = <<>>
      THEN [ok |-> FALSE, cards |-> <<>>]
      ELSE [ok |-> TRUE, cards |-> cards]

\* _parse_tarot_cards: the non-empty stripped lines, each parsed in turn
parse_tarot_cards(text) ==
  LET NonEmpty(line) == line # <<>>
      raw_lines == splitlines(text, <<>>)
      lines == SelectSeq([i \in 1..Len(raw_lines) |-> strip(raw_lines[i])], NonEmpty)
  IN  cards_of(lines, [i \in 1..Len(lines) |-> parse_card_line(lines[i])])

TarotModeKeys ==
  {"tarot_mode_topic", "tarot_mode_timeframe", "tarot_mode_spread_text",
   "tarot_mode_cards_required", "tarot_mode_ai_meta", "tarot_mode_question"}

\* _reset_tarot_mode_session: every key of session.data that starts with tarot_mode_
reset_tarot_mode_session(e) ==
  [e EXCEPT !.session.data = [k \in DOMAIN @ \ TarotModeKeys |-> @[k]]]

\* a check that lets every request through
check_tarot_mode_limit_unlimited(e) == [ok |-> TRUE, e |-> e]

\* _check_tarot_mode_limit: ok, or the effect of the refusal
check_tarot_mode_limit(e) ==
  LET paid == e.user.subscription = "paid"
      limit == IF paid THEN TAROT_MODE_PAID_DAILY_LIMIT ELSE TAROT_MODE_FREE_DAILY_LIMIT
      message == IF paid THEN "tarot_mode_limit_paid" ELSE "tarot_mode_limit_free"
  IN  IF count_tarot_mode_for_date(e.user.chat_id, today) < limit
      THEN [ok |-> TRUE, e |-> e]
      ELSE [ok |-> FALSE,
            e |-> SetState(reset_tarot_mode_session(send_message(e, Msg(message, KbT.ToMenu))),
                           "main_menu")]

start_tarot_mode(e) ==
  IF ~check_tarot_mode_limit(e).ok THEN check_tarot_mode_limit(e).e
  ELSE SetState(send_message(reset_tarot_mode_session(e), Msg("tarot_mode_topic", KbT.Topic)),
                "tarot_mode_topic")

leave_tarot_mode(e) == SetState(show_main_menu(reset_tarot_mode_session(e)), "main_menu")

handle_tarot_mode_topic(e, text) ==
  IF text \in {L.ToMenu, L.BackToMenu} THEN leave_tarot_mode(e)
  ELSE IF lower(text) = L.Other
  THEN SetState(send_message(e, Msg("tarot_mode_write_topic", NoKeyboard)), "tarot_mode_topic")
  ELSE SetState(send_message(SetData(e, "tarot_mode_topic", strip(text)),
                             Msg("tarot_mode_timeframe", KbT.Timeframe)),
                "tarot_mode_timeframe")

handle_tarot_mode_timeframe(e, text, ai) ==
  IF text \in {L.ToMenu, L.BackToMenu} THEN leave_tarot_mode(e)
  ELSE
    LET spread_text == IF ~ai.ok THEN T.Fallback ELSE strip(ai.content)
        e1 == ask_ai(SetData(e, "tarot_mode_timeframe", strip(text)), ai)
        e2 == SetData(e1, "tarot_mode_spread_text", spread_text)
        e3 == SetData(e2, "tarot_mode_cards_required",
                      extract_tarot_spread_cards_count(spread_text))
        e4 == SetData(e3, "tarot_mode_ai_meta", IF ai.ok THEN "openai" ELSE "")
        e5 == send_message(e4, Msg("tarot_mode_spread", NoKeyboard))
    IN  SetState(send_message(e5, Msg("tarot_mode_send_cards", KbT.Cards)), "tarot_mode_cards")

create_tarot_mode_log(e, cards) ==
  [e EXCEPT !.tarot_mode_logs =
     @ (+) SetToBag({[chat_id |-> e.user.chat_id,
                      topic |-> DataGet(e.session.data, "tarot_mode_topic", <<>>),
                      timeframe |-> DataGet(e.session.data, "tarot_mode_timeframe", <<>>),
                      spread |-> DataGet(e.session.data, "tarot_mode_spread_text", <<>>),
                      cards |-> cards,
                      created_at |-> now]})]

\* an interpretation that asks for at least the expected number of cards
interpret_tarot_mode_cards_at_least(e, parsed, ai) ==
  LET e1 == ask_ai(send_message(e, Msg("tarot_mode_wait", NoKeyboard)), ai)
  IN  IF ~parsed.ok
      THEN SetState(send_message(e, Msg("tarot_mode_bad_cards", NoKeyboard)),
                    "tarot_mode_cards")
      ELSE IF Len(parsed.cards) < DataGet(e.session.data, "tarot_mode_cards_required", 3)
      THEN SetState(send_message(e, Msg("tarot_mode_cards_count", NoKeyboard)),
                    "tarot_mode_cards")
      ELSE IF ~check_tarot_mode_limit(e).ok THEN check_tarot_mode_limit(e).e
      ELSE IF ~ai.ok
      THEN leave_tarot_mode(send_message(e1, Msg("tarot_mode_failed", NoKeyboard)))
      ELSE SetState(
             reset_tarot_mode_session(
               send_message(create_tarot_mode_log(e1, parsed.cards),
                            Msg("tarot_mode_result", KbT.Done))),
             "tarot_mode_done")

\* handle_tarot_mode_cards once the message is parsed
interpret_tarot_mode_cards(e, parsed, ai) ==
  LET counted == "tarot_mode_cards_required" \in DOMAIN e.session.data
      e1 == ask_ai(send_message(e, Msg("tarot_mode_wait", NoKeyboard)), ai)
  IN  IF ~parsed.ok
      THEN SetState(send_message(e, Msg("tarot_mode_bad_cards", NoKeyboard)),
                    "tarot_mode_cards")
      ELSE IF counted /\ Len(parsed.cards) # e.session.data["tarot_mode_cards_required"]
      THEN SetState(send_message(e, Msg("tarot_mode_cards_count", NoKeyboard)),
                    "tarot_mode_cards")
      ELSE IF ~counted /\ Len(parsed.cards) < 3
      THEN SetState(send_message(e, Msg("tarot_mode_min_cards", NoKeyboard)),
                    "tarot_mode_cards")
      ELSE IF ~check_tarot_mode_limit(e).ok THEN check_tarot_mode_limit(e).e
      ELSE IF ~ai.ok
      THEN leave_tarot_mode(send_message(e1, Msg("tarot_mode_failed", NoKeyboard)))
      ELSE SetState(
             reset_tarot_mode_session(
               send_message(create_tarot_mode_log(e1, parsed.cards),
                            Msg("tarot_mode_result", KbT.Done))),
             "tarot_mode_done")

handle_tarot_mode_cards(e, text, ai) ==
  IF text \in {L.ToMenu, L.BackToMenu} THEN leave_tarot_mode(e)
  ELSE interpret_tarot_mode_cards(e, parse_tarot_cards(text), ai)

handle_tarot_mode_done(e, text) ==
  IF text = L.OneMoreSpread THEN start_tarot_mode(e)
  ELSE IF text = L.ToMenu THEN SetState(show_main_menu(e), "main_menu")
  ELSE SetState(send_message(e, Msg("tarot_mode_choose", KbT.Done)), "tarot_mode_done")

(***************************************************************************)
(* main menu and the dispatch of handle_update                             *)
(***************************************************************************)
\* a main menu that lets a free user into the companion chat every time
podruzhka_free_spent_never(user) == FALSE

podruzhka_free_spent(user) ==
  user.subscription # "paid" /\ user.podruzhka_free_used_at # NoneTime

route_main_menu(e, text) ==
  IF text = L.TaroSpread
  THEN SetState(send_message(e, Msg("taro_choose_type", Kb.TaroMenu)), "taro_menu")
  ELSE IF text = L.TarotMode THEN start_tarot_mode(e)
  ELSE IF text = L.Numerology
  THEN (IF ~Truthy(e.user.surname)
        THEN SetState(send_message(e, Msg("ask_surname", NoKeyboard)), "numerology_ask_surname")
        ELSE SetState(render_numerology_menu(e), "numerology_menu"))
  ELSE IF text = L.Horoscope
  THEN (IF ~Truthy(e.user.surname)
        THEN SetState(send_message(e, Msg("ask_surname", NoKeyboard)), "horoscope_ask_surname")
        ELSE IF ~Truthy(e.user.birth_time)
        THEN SetState(send_message(e, Msg("ask_birth_time", Kb.DontKnow)),
                      "horoscope_ask_birth_time")
        ELSE SetState(show_horoscope_menu(e), "horoscope_menu"))
  ELSE IF text = L.Podruzhka
  THEN (IF podruzhka_free_spent(e.user)
        THEN send_message(e, Msg("podruzhka_free_used", Kb.Upsell))
        ELSE SetState(send_message(e, Msg("podruzhka_hello", Kb.EndTalk)),
                      IF e.user.subscription = "paid" THEN "podruzhka_chat"
                      ELSE "podruzhka_free"))
  ELSE IF text \in {L.Subscription, L.GetAccess}
  THEN SetState(show_subscription_menu(e), "subscription_menu")
  ELSE IF text = L.Help
  THEN send_message(e, Msg("help", Kb.Help))
  ELSE IF text = L.ContactAdmin
  THEN SetState(send_message(e, Msg("support_describe", Kb.Back)), "support_ask")
  ELSE show_main_menu(e)

ask_surname(e, text, next_state) ==
  IF text = <<>> THEN send_message(e, Msg("write_surname", NoKeyboard))
  ELSE
    LET surname == normalize_name(text)
    IN  IF is_system_command(surname) THEN SetState(show_main_menu(e), "main_menu")
        ELSE IF ~validate_surname(surname)
        THEN send_message(e, Msg("surname_letters_only", NoKeyboard))
        ELSE
          LET e1 == [e EXCEPT !.user.surname = Truncate(surname, 100)]
          IN  IF next_state = "numerology_menu"
              THEN SetState(render_numerology_menu(e1), "numerology_menu")
              ELSE IF ~Truthy(e1.user.birth_time)
              THEN SetState(send_message(e1, Msg("ask_birth_time", Kb.DontKnow)),
                            "horoscope_ask_birth_time")
              ELSE SetState(show_horoscope_menu(e1), "horoscope_menu")

ask_birth_time(e, text) ==
  IF text = L.DontKnow
  THEN SetState(show_horoscope_menu([e EXCEPT !.user.birth_time = NoneText]), "horoscope_menu")
  ELSE IF ~validate_time(text)
  THEN send_message(e, Msg("birth_time_format", Kb.DontKnow))
  ELSE SetState(show_horoscope_menu([e EXCEPT !.user.birth_time = text \o <<58, 48, 48>>]),
                "horoscope_menu")

support_ask(e, text) ==
  IF text = L.BackToMenu THEN SetState(show_main_menu(e), "main_menu")
  ELSE IF text = <<>> THEN send_message(e, Msg("support_describe_again", NoKeyboard))
  ELSE SetState(send_message(log_chat_message(e, "system", "", "support_request"),
                             Msg("support_thanks", Kb.Back)),
                "main_menu")

Dispatch(e, text, ai, pay) ==
  CASE e.session.state = "start" -> SetState(show_welcome(e), "ask_consent")
    [] e.session.state = "ask_consent" ->
         IF is_positive(text)
         THEN SetState(send_message(e, Msg("ask_name", NoKeyboard)), "ask_name")
         ELSE send_message(e, Msg("press_start", Kb.Start))
    [] e.session.state = "ask_name" ->
         IF text = <<>> THEN send_message(e, Msg("write_name", NoKeyboard))
         ELSE SetState(send_message([e EXCEPT !.user.name = Truncate(text, 100)],
                                    Msg("ask_birth_date", NoKeyboard)),
                       "ask_birth_date")
    [] e.session.state = "ask_birth_date" ->
         IF ~validate_date(text) THEN send_message(e, Msg("bad_date", NoKeyboard))
         ELSE SetState(show_main_menu([e EXCEPT !.user.birth_date = isoformat(strptime(text))]),
                       "main_menu")
    [] e.session.state = "main_menu" -> route_main_menu(e, text)
    [] e.session.state = "taro_menu" -> route_taro_menu(e, text)
    [] e.session.state = "taro_ask_question" -> handle_taro_question(e, text, ai)
    [] e.session.state = "tarot_mode_topic" -> handle_tarot_mode_topic(e, text)
    [] e.session.state = "tarot_mode_timeframe" -> handle_tarot_mode_timeframe(e, text, ai)
    [] e.session.state = "tarot_mode_cards" -> handle_tarot_mode_cards(e, text, ai)
    [] e.session.state = "tarot_mode_done" -> handle_tarot_mode_done(e, text)
    [] e.session.state = "numerology_ask_surname" -> ask_surname(e, text, "numerology_menu")
    [] e.session.state = "numerology_menu" -> route_numerology_menu(e, text, ai)
    [] e.session.state = "horoscope_ask_surname" -> ask_surname(e, text, "horoscope_menu")
    [] e.session.state = "horoscope_ask_birth_time" -> ask_birth_time(e, text)
    [] e.session.state = "horoscope_menu" -> route_horoscope_menu(e, text, ai)
    [] e.session.state = "podruzhka_free" -> handle_podruzhka_free(e, text, ai)
    [] e.session.state = "podruzhka_chat" -> handle_podruzhka_chat(e, text, ai)
    [] e.session.state = "subscription_menu" -> route_subscription_menu(e, text, pay)
    [] e.session.state = "await_payment" -> handle_payment_status(e, text, pay)
    [] e.session.state = "support_ask" -> support_ask(e, text)
    [] OTHER -> SetState(show_main_menu(e), "main_menu")

(***************************************************************************)
(* Bounds of the model                                                     *)
(***************************************************************************)
MaxClock == 5
MaxPayments == 2
MaxTaroRows == 12
MaxSupport == 1
MaxUpdates == 2
MaxHandled == 3
MaxMonths == 12
MaxLines == 3

SupportRows(table) ==
  BagSum(table, {row \in BagToSet(table) : row.source = "support_request"})

Bounded(e) ==
  /\ Len(e.payments) <= MaxPayments
  /\ BagCardinality(e.taro_readings) <= MaxTaroRows
  /\ SupportRows(e.chat_messages) <= MaxSupport

(***************************************************************************)
(* Operations                                                              *)
(***************************************************************************)
Script == <<L.Start, W.da, X.Anna, X.Birth>>

Follow(pos, raw_text) ==
  IF pos < Len(Script) /\ raw_text = Script[pos + 1] THEN pos + 1 ELSE Len(Script) + 1

StoredUser(chat_id) == CHOOSE row \in UserRows(chat_id) : TRUE

StoredSession(chat_id) == CHOOSE row \in SessionRows(chat_id) : TRUE

StateOf(chat_id) ==
  IF SessionRows(chat_id) = {} THEN "start"
  ELSE (CHOOSE row \in SessionRows(chat_id) : TRUE).state

Commit(e) ==
  /\ taro_readings' = e.taro_readings
  /\ numerology_readings' = e.numerology_readings
  /\ horoscope_readings' = e.horoscope_readings
  /\ tarot_mode_logs' = e.tarot_mode_logs
  /\ chat_messages' = e.chat_messages
  /\ reminders' = e.reminders
  /\ payments' = e.payments

Idle(op) ==
  [op |-> op, chat_id |-> 0, text |-> <<>>, state |-> "", sent |-> <<>>, ai_calls |-> 0,
   ai_failed |-> FALSE, pay_calls |-> 0, pay_failed |-> FALSE, reconciled |-> NoneText,
   activated |-> 0, user |-> <<>>, session |-> <<>>, observed |-> ""]

Observe(op, e, text, state) ==
  [op |-> op, chat_id |-> e.user.chat_id, text |-> text, state |-> state, sent |-> e.sent,
   ai_calls |-> e.ai_calls, ai_failed |-> e.ai_failed, pay_calls |-> e.pay_calls,
   pay_failed |-> e.pay_failed, reconciled |-> e.reconciled, activated |-> e.activated,
   user |-> e.user, session |-> e.session, observed |-> e.observed]

\* the end of handle_update: the user and the session are saved with what the
\* handler did
SaveUpdate(s, u, text, e) ==
  /\ Bounded(e)
  /\ users' = save_user(u.table, e.user)
  /\ tg_sessions' = save_session(s.table, e.session)
  /\ Commit(e)
  /\ step' = Observe("update", e, text, s.row.state)

\* ChatService.handle_update for one inbound message
handle_update(chat_id, raw_text, ai, pay) ==
  /\ due = <<>>
  /\ LET text == strip(raw_text)
         s == get_or_create_session(chat_id)
         u == get_or_create_user(chat_id)
     IN  SaveUpdate(s, u, text, Dispatch(Begin(s.row, u.row), text, ai, pay))
  /\ scenario' = [scenario EXCEPT ![chat_id] = Follow(@, raw_text)]
  /\ UNCHANGED <<clock, due, inflight>>

\* one inbound message handed to handle_update, the poll loop left aside
HandleUpdate(chat_id, raw_text, ai, pay) ==
  /\ handle_update(chat_id, raw_text, ai, pay)
  /\ UNCHANGED bot_vars

\* the write-back statements of handle_update before which the process can stop
CrashPoints == {"save_user", "save_session"}

\* what is durable when the process stops before a write-back statement of
\* handle_update: every statement before it has been committed by
\* Storage._execute, the statements from it on have not run
CrashUpdate(s, u, text, e, point, ai, pay) ==
  /\ Bounded(e)
  /\ users' = IF point = "save_session" THEN save_user(u.table, e.user) ELSE u.table
  /\ tg_sessions' = s.table
  /\ Commit(e)
  /\ step' = [point |-> point, ai |-> ai, pay |-> pay] @@ Observe("crash", e, text, s.row.state)

\* ChatService.handle_update for one inbound message, stopped by a crash of the
\* process before the write-back statement point
HandleUpdateCrash(chat_id, raw_text, ai, pay, point) ==
  /\ due = <<>>
  /\ LET text == strip(raw_text)
         s == get_or_create_session(chat_id)
         u == get_or_create_user(chat_id)
     IN  CrashUpdate(s, u, text, Dispatch(Begin(s.row, u.row), text, ai, pay), point, ai, pay)
  /\ UNCHANGED <<clock, due, scenario, inflight>>
  /\ UNCHANGED bot_vars

\* the end of handle_scheduled_payment_check: the user and the session are saved
SaveCheck(s, u, e) ==
  [e |-> e,
   users |-> save_user(u.table, e.user),
   tg_sessions |-> save_session(s.table, e.session),
   state |-> s.row.state]

\* ChatService.handle_scheduled_payment_check
handle_scheduled_payment_check(chat_id, payment_id, pay) ==
  LET s == get_or_create_session(chat_id)
      u == get_or_create_user(chat_id)
  IN  SaveCheck(s, u, process_payment_status(Begin(s.row, u.row), payment_id, FALSE, FALSE, pay))

startswith(t, prefix) == Len(t) >= Len(prefix) /\ SubSeq(t, 1, Len(prefix)) = prefix

\* str.split("|", 2)
RECURSIVE split_bar(_, _, _)
split_bar(t, cur, maxsplit) ==
  IF t = <<>> THEN <<cur>>
  ELSE IF Head(t) = 124 /\ maxsplit > 0 THEN <<cur>> \o split_bar(Tail(t), <<>>, maxsplit - 1)
  ELSE split_bar(Tail(t), Append(cur, Head(t)), maxsplit)

RETENTION_MESSAGES == {X.Retention0, X.Retention2}

\* bot._send_due_reminders, the query that starts a pass
BeginPass ==
  /\ due = <<>>
  /\ get_due_reminders(now) # <<>>
  /\ due' = get_due_reminders(now)
  /\ step' = Idle("scan")
  /\ UNCHANGED <<users, tg_sessions, taro_readings, numerology_readings, horoscope_readings,
                 tarot_mode_logs, chat_messages, reminders, payments, clock, scenario, inflight>>
  /\ UNCHANGED bot_vars

\* bot._send_due_reminders, a payment check: what the check wrote, and the
\* reminder marked as sent
CommitCheck(reminder_id, r) ==
  /\ users' = r.users
  /\ tg_sessions' = r.tg_sessions
  /\ Commit([r.e EXCEPT !.reminders = mark_reminder_sent(@, reminder_id)])
  /\ step' = Observe("payment_check", r.e, <<>>, r.state)

\* bot._send_due_reminders, one iteration of the loop over the due reminders
PassStep(pay) ==
  /\ due # <<>>
  /\ LET reminder_id == Head(due)
         reminder == reminders[reminder_id]
         parts == split_bar(reminder.message, <<>>, 2)
         u == get_or_create_user(reminder.chat_id)
         idle == Begin(TgSession(reminder.chat_id), u.row)
     IN  IF startswith(reminder.message, PAYMENT_REMINDER_PREFIX)
         THEN
           IF Len(parts) >= 2 /\ parts[2] # <<>>
           THEN CommitCheck(reminder_id,
                            handle_scheduled_payment_check(reminder.chat_id, parts[2], pay))
           ELSE /\ Commit([idle EXCEPT !.reminders = mark_reminder_sent(@, reminder_id)])
                /\ step' = Observe("reminder", idle, <<>>, "")
                /\ UNCHANGED <<users, tg_sessions>>
         ELSE IF /\ reminder.message \in RETENTION_MESSAGES
                 /\ (u.row.subscription = "paid" \/ u.row.retention_message_sent_at # NoneTime)
         THEN /\ users' = u.table
              /\ Commit([idle EXCEPT !.reminders = mark_reminder_sent(@, reminder_id)])
              /\ step' = Observe("retention_skip", idle, <<>>, "")
              /\ UNCHANGED tg_sessions
         ELSE
           LET e1 == log_chat_message([idle EXCEPT !.sent = Append(@, Msg("reminder", NoKeyboard))],
                                      "assistant", "", "reminder")
               e2 == IF reminder.message \in RETENTION_MESSAGES
                     THEN [e1 EXCEPT !.user.retention_message_sent_at = now]
                     ELSE e1
           IN  /\ users' = IF reminder.message \in RETENTION_MESSAGES
                           THEN save_user(u.table, e2.user) ELSE users
               /\ Commit([e2 EXCEPT !.reminders = mark_reminder_sent(@, reminder_id)])
               /\ step' = Observe("reminder", e2, <<>>, "")
               /\ UNCHANGED tg_sessions
  /\ due' = Tail(due)
  /\ UNCHANGED <<clock, scenario, inflight>>
  /\ UNCHANGED bot_vars

\* bot._send_due_reminders, an iteration that raises (a storage error on the
\* first statement that touches the database): nothing in the function catches
\* it, the for loop is left and the exception reaches the except clause of main
PassRaises ==
  /\ due # <<>>
  /\ due' = <<>>
  /\ step' = Idle("reminder_raises")
  /\ UNCHANGED <<users, tg_sessions, taro_readings, numerology_readings, horoscope_readings,
                 tarot_mode_logs, chat_messages, reminders, payments, clock, scenario, inflight>>
  /\ UNCHANGED bot_vars

\* time passes
Tick(minutes) ==
  /\ clock + minutes <= MaxClock
  /\ clock' = clock + minutes
  /\ step' = Idle("tick")
  /\ UNCHANGED <<users, tg_sessions, taro_readings, numerology_readings, horoscope_readings,
                 tarot_mode_logs, chat_messages, reminders, payments, due, scenario, inflight>>
  /\ UNCHANGED bot_vars

\* the hours until a retention reminder is due pass
RetentionHorizon == RetentionDelayMinutes + MaxClock

Later(minutes) ==
  /\ clock + minutes <= RetentionHorizon
  /\ clock' = clock + minutes
  /\ step' = Idle("later")
  /\ UNCHANGED <<users, tg_sessions, taro_readings, numerology_readings, horoscope_readings,
                 tarot_mode_logs, chat_messages, reminders, payments, due, scenario, inflight>>
  /\ UNCHANGED bot_vars

\* the weeks until every subscription bought so far is past its
\* subscription_expires_at pass
ExpiryMinutes == 32 * MinutesPerDay

Expire ==
  /\ clock <= MaxClock
  /\ clock' = clock + ExpiryMinutes
  /\ step' = Idle("expire")
  /\ UNCHANGED <<users, tg_sessions, taro_readings, numerology_readings, horoscope_readings,
                 tarot_mode_logs, chat_messages, reminders, payments, due, scenario, inflight>>
  /\ UNCHANGED bot_vars

\* admin_app.user_detail, a POST of the user form as the page showed it with
\* another subscription value: get_user, the form fields, save_user
AdminEdit(chat_id, subscription) ==
  /\ UserRows(chat_id) # {}
  /\ users' = save_user(users, [StoredUser(chat_id) EXCEPT !.subscription = subscription])
  /\ step' = [Idle("admin_edit") EXCEPT !.chat_id = chat_id]
  /\ UNCHANGED <<tg_sessions, taro_readings, numerology_readings, horoscope_readings,
                 tarot_mode_logs, chat_messages, reminders, payments, clock, due, scenario, inflight>>
  /\ UNCHANGED bot_vars

\* admin_app.user_detail, GET: the page shows the form filled with the stored
\* user
AdminGets(chat_id) ==
  /\ inflight.admin = <<>>
  /\ UserRows(chat_id) # {}
  /\ inflight' = [inflight EXCEPT !.admin = StoredUser(chat_id)]
  /\ step' = [Idle("admin_get") EXCEPT !.chat_id = chat_id]
  /\ UNCHANGED <<users, tg_sessions, taro_readings, numerology_readings, horoscope_readings,
                 tarot_mode_logs, chat_messages, reminders, payments>>
  /\ UNCHANGED <<clock, due, scenario>>
  /\ UNCHANGED bot_vars

\* the fields of the user form
FormFields ==
  {"name", "surname", "birth_date", "birth_time", "subscription", "subscription_expires_at",
   "podruzhka_free_used_at"}

\* admin_app.user_detail, POST of the form the page showed, with a surname
\* typed in and the subscription granted or left as shown: get_user, the
\* seven form fields, save_user
AdminPosts(surname, grant) ==
  /\ inflight.admin # <<>>
  /\ LET form == [inflight.admin EXCEPT !.surname = surname,
                                        !.subscription = IF grant THEN "paid" ELSE @]
         user == StoredUser(form.chat_id)
         saved == [f \in DOMAIN user |-> IF f \in FormFields THEN form[f] ELSE user[f]]
     IN  /\ users' = save_user(users, saved)
         /\ step' = [Idle("admin_post") EXCEPT !.chat_id = form.chat_id, !.user = form]
  /\ inflight' = [inflight EXCEPT !.admin = <<>>]
  /\ UNCHANGED <<tg_sessions, taro_readings, numerology_readings, horoscope_readings,
                 tarot_mode_logs, chat_messages, reminders, payments, clock, due, scenario>>
  /\ UNCHANGED bot_vars

\* handle_update up to its write-back: the statements of the handler have
\* run, each committed by Storage._execute, and the handler holds the user and
\* the session it is about to save
RunUpdate(s, u, text, e) ==
  /\ Bounded(e)
  /\ users' = u.table
  /\ tg_sessions' = s.table
  /\ Commit(e)
  /\ inflight' = [inflight EXCEPT !.engine = [read |-> u.row, user |-> e.user,
                                              session |-> e.session]]
  /\ step' = Observe("update_runs", e, text, s.row.state)

UpdateRuns(chat_id, raw_text, ai, pay) ==
  /\ due = <<>>
  /\ inflight.engine = <<>>
  /\ LET text == strip(raw_text)
         s == get_or_create_session(chat_id)
         u == get_or_create_user(chat_id)
     IN  RunUpdate(s, u, text, Dispatch(Begin(s.row, u.row), text, ai, pay))
  /\ UNCHANGED <<clock, due, scenario>>
  /\ UNCHANGED bot_vars

\* the write-back of handle_update: save_user, save_session
UpdateSaves ==
  /\ inflight.engine # <<>>
  /\ users' = save_user(users, inflight.engine.user)
  /\ tg_sessions' = save_session(tg_sessions, inflight.engine.session)
  /\ inflight' = [inflight EXCEPT !.engine = <<>>]
  /\ step' = [Idle("update_saves") EXCEPT !.chat_id = inflight.engine.user.chat_id,
                                          !.user = inflight.engine.user]
  /\ UNCHANGED <<taro_readings, numerology_readings, horoscope_readings, tarot_mode_logs,
                 chat_messages, reminders, payments, clock, due, scenario>>
  /\ UNCHANGED bot_vars

(***************************************************************************)
(* The poll loop of bot.main                                               *)
(***************************************************************************)
store_vars ==
  <<users, tg_sessions, taro_readings, numerology_readings, horoscope_readings,
    tarot_mode_logs, chat_messages, reminders, payments>>

\* _load_offset: the integer in the file, 0 without a file
load_offset(file) == file

\* TgService.get_updates against the messaging service: the updates from the
\* offset on that the service still holds; an update is confirmed, and dropped
\* by the service, once a call carries an offset above its update_id
get_updates(from) ==
  LET Pending(update) == update.update_id >= from /\ update.update_id >= confirmed
  IN  SelectSeq(inbox, Pending)

\* an offset that stays on the update it was taken from
next_offset_same(update) == update.update_id

\* bot.main line 90: offset = update.get("update_id", offset) + 1
next_offset(update) == update.update_id + 1

\* a loop without the except clause: the exception ends main
on_exception_exit == "exit"

\* bot.main, the except clause: the error is logged and the loop sleeps
on_exception == "sleep"

\* a user sends a message: the messaging service queues an update
Arrive(chat_id, text) ==
  /\ Len(inbox) < MaxUpdates
  /\ inbox' = Append(inbox, [update_id |-> Len(inbox) + 1, chat_id |-> chat_id, text |-> text])
  /\ step' = Idle("arrive")
  /\ UNCHANGED <<confirmed, offset, offset_file, updates, index, pc, handled>>
  /\ UNCHANGED <<clock, due, scenario, inflight>>
  /\ UNCHANGED store_vars

\* bot.main line 88: tg.get_updates(offset); a failed request is answered with
\* the empty list inside get_updates
GetUpdates(ok) ==
  /\ pc = "poll"
  /\ updates' = IF ok THEN get_updates(offset) ELSE <<>>
  /\ confirmed' = IF ok /\ offset > confirmed THEN offset ELSE confirmed
  /\ index' = 0
  /\ pc' = "batch"
  /\ step' = Idle(IF ok THEN "get_updates" ELSE "get_updates_failed")
  /\ UNCHANGED <<inbox, offset, offset_file, handled>>
  /\ UNCHANGED <<clock, due, scenario, inflight>>
  /\ UNCHANGED store_vars

\* bot.main lines 89-91, one iteration of the for loop in which handle_update
\* returns
HandleNext ==
  /\ pc = "batch"
  /\ index < Len(updates)
  /\ Len(handled) < MaxHandled
  /\ offset' = next_offset(updates[index + 1])
  /\ handle_update(updates[index + 1].chat_id, updates[index + 1].text, AiFail, "error")
  /\ handled' = Append(handled, updates[index + 1].update_id)
  /\ index' = index + 1
  /\ UNCHANGED <<inbox, confirmed, offset_file, updates, pc>>

\* bot.main lines 89-91, one iteration of the for loop in which handle_update
\* raises an unexpected exception: the for loop is left for the except clause
HandleRaises ==
  /\ pc = "batch"
  /\ index < Len(updates)
  /\ offset' = next_offset(updates[index + 1])
  /\ index' = index + 1
  /\ pc' = on_exception
  /\ step' = Idle("handle_update_raises")
  /\ UNCHANGED <<inbox, confirmed, offset_file, updates, handled>>
  /\ UNCHANGED <<clock, due, scenario, inflight>>
  /\ UNCHANGED store_vars

\* bot.main line 92: _save_offset after the for loop; the write may raise
SaveOffset(ok) ==
  /\ pc = "batch"
  /\ index = Len(updates)
  /\ offset_file' = IF ok THEN offset ELSE offset_file
  /\ pc' = IF ok THEN "reminders" ELSE on_exception
  /\ step' = Idle(IF ok THEN "save_offset" ELSE "save_offset_raises")
  /\ UNCHANGED <<inbox, confirmed, offset, updates, index, handled>>
  /\ UNCHANGED <<clock, due, scenario, inflight>>
  /\ UNCHANGED store_vars

\* bot.main line 93: _send_due_reminders with nothing due; the query may raise
SendDueReminders(ok) ==
  /\ pc = "reminders"
  /\ get_due_reminders(now) = <<>>
  /\ pc' = IF ok THEN "poll" ELSE on_exception
  /\ step' = Idle(IF ok THEN "reminders" ELSE "reminders_raises")
  /\ UNCHANGED <<inbox, confirmed, offset, offset_file, updates, index, handled>>
  /\ UNCHANGED <<clock, due, scenario, inflight>>
  /\ UNCHANGED store_vars

\* bot.main lines 94-98: the except clause sleeps, then the loop polls again
Sleep ==
  /\ pc = "sleep"
  /\ pc' = "poll"
  /\ step' = Idle("sleep")
  /\ UNCHANGED <<inbox, confirmed, offset, offset_file, updates, index, handled>>
  /\ UNCHANGED <<clock, due, scenario, inflight>>
  /\ UNCHANGED store_vars

\* the process is stopped and started again: main begins with _load_offset
Restart ==
  /\ offset' = load_offset(offset_file)
  /\ updates' = <<>>
  /\ index' = 0
  /\ pc' = "poll"
  /\ step' = Idle("restart")
  /\ UNCHANGED <<inbox, confirmed, offset_file, handled>>
  /\ UNCHANGED <<clock, due, scenario, inflight>>
  /\ UNCHANGED store_vars

\* every variable but step, as the process finds it at its first start
Fresh ==
  /\ users = {}
  /\ tg_sessions = {}
  /\ taro_readings = EmptyBag
  /\ numerology_readings = EmptyBag
  /\ horoscope_readings = EmptyBag
  /\ tarot_mode_logs = EmptyBag
  /\ chat_messages = EmptyBag
  /\ reminders = <<>>
  /\ payments = <<>>
  /\ clock = 0
  /\ due = <<>>
  /\ scenario = [c \in Chats |-> 0]
  /\ inbox = <<>>
  /\ confirmed = 0
  /\ offset_file = 0
  /\ offset = load_offset(offset_file)
  /\ updates = <<>>
  /\ index = 0
  /\ pc = "poll"
  /\ handled = <<>>
  /\ inflight = [engine |-> <<>>, admin |-> <<>>]

Init == Fresh /\ step = Idle("init")

\* a step that only computes: nothing but the observation changes
Computes ==
  /\ UNCHANGED store_vars
  /\ UNCHANGED <<clock, due, scenario, inflight>>
  /\ UNCHANGED bot_vars

(***************************************************************************)
(* Environments: which texts arrive, what the adapters answer              *)
(***************************************************************************)
AiOk == [ok |-> TRUE, content |-> X.Hello]

AiStates ==
  {"taro_ask_question", "tarot_mode_timeframe", "tarot_mode_cards", "numerology_menu",
   "horoscope_menu", "podruzhka_free", "podruzhka_chat"}

PayStates == {"subscription_menu", "await_payment"}

AiChoices(chat_id, outcomes) == IF StateOf(chat_id) \in AiStates THEN outcomes ELSE {AiFail}

PayChoices(chat_id, outcomes) == IF StateOf(chat_id) \in PayStates THEN outcomes ELSE {"error"}

\* a user who onboards by the book and then sends any text of the alphabet
Onboarded(chat_id, alphabet) ==
  CASE StateOf(chat_id) = "start" -> {L.Start}
    [] StateOf(chat_id) = "ask_consent" -> {W.da}
    [] StateOf(chat_id) = "ask_name" -> {X.Anna}
    [] StateOf(chat_id) = "ask_birth_date" -> {X.Birth}
    [] OTHER -> alphabet

OnboardingTexts ==
  {L.Start, W.da, X.DaUpper, X.Net, X.Anna, X.AnnaRaw, X.Empty, X.Birth, X.BadDate,
   X.NotDate, L.BackToMenu}

\* Spec: two new chats going through onboarding with arbitrary texts
Next ==
  \E chat_id \in Chats, raw_text \in OnboardingTexts :
    HandleUpdate(chat_id, raw_text, AiFail, "error")

Spec == Init /\ [][Next]_vars

\* SpecPay: one onboarded chat buying subscriptions while the reminder
\* scheduler runs its passes and the clock advances
PayTexts == {L.Subscription, L.Month1, L.Month6, L.CheckPayment, L.BackToMenu}

PayOutcomes == {"error", "pending", "succeeded", "canceled"}

PayTick == PaymentCheckMinutes[1]

NextPay ==
  \/ \E raw_text \in Onboarded(101, PayTexts), pay \in PayChoices(101, PayOutcomes) :
        HandleUpdate(101, raw_text, AiFail, pay)
  \/ BeginPass
  \/ \E pay \in PayOutcomes : PassStep(pay)
  \/ Tick(PayTick)

SpecPay == Init /\ [][NextPay]_vars

\* SpecTaro: one onboarded chat asking simple-tarot questions, first on the
\* free tier and, once it has bought a month, as a paid user; the completion
\* adapter may fail and midnight may pass
IsPaid(chat_id) == UserRows(chat_id) # {} /\ StoredUser(chat_id).subscription = "paid"

Buying(chat_id, alphabet) ==
  CASE StateOf(chat_id) = "subscription_menu" -> {L.Month1}
    [] StateOf(chat_id) = "await_payment" -> {L.CheckPayment}
    [] StateOf(chat_id) = "main_menu" /\ ~IsPaid(chat_id) -> alphabet \cup {L.Subscription}
    [] OTHER -> alphabet

TaroTexts == {L.TaroSpread, L.TaroDay, L.AskAnother, X.Question, L.BackToMenu}

AiOutcomes == {AiOk, AiFail}

DayTick == MinutesPerDay - Epoch.minute

NextTaro ==
  \/ \E raw_text \in Onboarded(101, Buying(101, TaroTexts)),
         ai \in AiChoices(101, AiOutcomes), pay \in PayChoices(101, {"succeeded"}) :
        HandleUpdate(101, raw_text, ai, pay)
  \/ Tick(DayTick)

SpecTaro == Init /\ [][NextTaro]_vars

\* SpecReadings: one onboarded chat asking for numerology and horoscope
\* readings, both variants, once it has bought a month
\* a user who presses the buttons of the keyboard on screen
ReadingTexts ==
  CASE StateOf(101) \in {"numerology_ask_surname", "horoscope_ask_surname"} -> {X.Surname}
    [] StateOf(101) = "horoscope_ask_birth_time" -> {X.Time}
    [] StateOf(101) = "numerology_menu" -> {L.Free, L.FullAnalysis, L.BackToMenu}
    [] StateOf(101) = "horoscope_menu" -> {L.Free, L.FullHoroscope, L.BackToMenu}
    [] OTHER -> {L.Numerology, L.Horoscope}

\* a user who subscribes right after onboarding
Subscriber(chat_id, alphabet) ==
  CASE StateOf(chat_id) = "subscription_menu" -> {L.Month1}
    [] StateOf(chat_id) = "await_payment" -> {L.CheckPayment}
    [] StateOf(chat_id) = "main_menu" /\ ~IsPaid(chat_id) -> {L.Subscription}
    [] OTHER -> alphabet

NextReadings ==
  \E raw_text \in Onboarded(101, Subscriber(101, ReadingTexts)),
     ai \in AiChoices(101, AiOutcomes), pay \in PayChoices(101, {"succeeded"}) :
    HandleUpdate(101, raw_text, ai, pay)

SpecReadings == Init /\ [][NextReadings]_vars

\* SpecPodruzhka: one onboarded chat talking to the companion, on the free
\* tier and, once it has bought a month, as a paid user; the completion
\* adapter may fail and midnight may pass
PodruzhkaTexts == {L.Podruzhka, X.Hello, X.Distress, L.EndTalk, L.BackToMenu}

NextPodruzhka ==
  \/ \E raw_text \in Onboarded(101, Buying(101, PodruzhkaTexts)),
         ai \in AiChoices(101, AiOutcomes), pay \in PayChoices(101, {"succeeded"}) :
        HandleUpdate(101, raw_text, ai, pay)
  \/ Tick(DayTick)

SpecPodruzhka == Init /\ [][NextPodruzhka]_vars

(***************************************************************************)
(* Properties                                                              *)
(***************************************************************************)
LastUpdateOf(chat_id) == step.op = "update" /\ step.chat_id = chat_id

\* C6: a new chat that sends "Старт", "да", "Анна", "08.09.1990" is answered, in
\* this order, with the consent prompt, the name prompt, the birth-date prompt
\* and the main menu, and ends with name "Анна", birth_date "1990-09-08" and
\* session state main_menu.
C6_OnboardingScenario ==
  \A c \in Chats :
    /\ scenario[c] = 1 /\ LastUpdateOf(c) =>
         step.sent = <<Msg("welcome_consent", Kb.Start)>> /\ StateOf(c) = "ask_consent"
    /\ scenario[c] = 2 /\ LastUpdateOf(c) =>
         step.sent = <<Msg("ask_name", NoKeyboard)>> /\ StateOf(c) = "ask_name"
    /\ scenario[c] = 3 /\ LastUpdateOf(c) =>
         /\ step.sent = <<Msg("ask_birth_date", NoKeyboard)>>
         /\ StateOf(c) = "ask_birth_date"
         /\ StoredUser(c).name = X.Anna
    /\ scenario[c] = 4 /\ LastUpdateOf(c) => step.sent = <<Msg("main_menu", Kb.Main)>>
    /\ scenario[c] = 4 =>
         /\ StoredUser(c).name = X.Anna
         /\ StoredUser(c).birth_date = X.BirthIso
         /\ StoredSession(c).state = "main_menu"

C6_Witness == \E c \in Chats : scenario[c] = 4 /\ LastUpdateOf(c)

\* C7: get_or_create_user and get_or_create_session are idempotent per chat id:
\* a call on a chat without a row adds exactly one row (the session in state
\* start with empty data), a call on a chat with a row returns the stored row
\* and adds nothing, and no chat ever has two user rows or two session rows.
C7_GetOrCreateIdempotent ==
  \A c \in Chats :
    LET u == get_or_create_user(c)
        s == get_or_create_session(c)
    IN  /\ Cardinality(UserRows(c)) <= 1
        /\ Cardinality(SessionRows(c)) <= 1
        /\ Cardinality({row \in u.table : row.chat_id = c}) = 1
        /\ Cardinality({row \in s.table : row.chat_id = c}) = 1
        /\ u.row \in u.table /\ s.row \in s.table
        /\ UserRows(c) # {} => u.table = users /\ u.row \in users
        /\ SessionRows(c) # {} => s.table = tg_sessions /\ s.row \in tg_sessions
        /\ SessionRows(c) = {} => s.row.state = "start" /\ s.row.data = EmptyData

C7_Witness ==
  \E c \in Chats :
    /\ UserRows(c) # {} /\ StoredUser(c).name # NoneText
    /\ StoredSession(c).state = "ask_birth_date"
    /\ \E d \in Chats : UserRows(d) = {}

\* the payment row a reconciliation step was about, as stored before the step
Settled(payment_id) ==
  /\ payment_id # NoneText
  /\ get_payment_by_id(payment_id) # NonePayment
  /\ get_payment_by_id(payment_id).status = "succeeded"

\* C1: a reconciliation (manual check or scheduled check) of a payment whose
\* row is already 'succeeded' changes nothing: the payment adapter is not
\* asked, the users row, the session row and the payments table stay as they
\* were, and no message is sent.
C1_SettledPaymentIsNoOp ==
  [][Settled(step'.reconciled)
       => /\ step'.pay_calls = 0
          /\ step'.sent = <<>>
          /\ step'.activated = 0
          /\ users' = users
          /\ tg_sessions' = tg_sessions
          /\ payments' = payments]_vars

\* a scheduled check has just met a payment that was settled by hand before
C1_Witness ==
  /\ step.op = "payment_check"
  /\ Settled(step.reconciled)
  /\ step.pay_calls = 0
  /\ step.sent = <<>>
  /\ StoredUser(step.chat_id).subscription = "paid"

\* the same no-op reached from the "check payment" button
C1_WitnessManual ==
  /\ step.op = "update"
  /\ step.state = "await_payment"
  /\ step.text = L.CheckPayment
  /\ Settled(step.reconciled)
  /\ step.pay_calls = 0
  /\ StoredSession(step.chat_id).state = "await_payment"

\* C2: an activation for N months leaves the user 'paid' with the expiry
\* exactly N calendar months after the current time, whatever the user's
\* subscription and expiry were before.
C2_ActivationFromNow ==
  step.activated # 0
    => /\ StoredUser(step.chat_id).subscription = "paid"
       /\ StoredUser(step.chat_id).subscription_expires_at = add_months(now, step.activated)

\* a second activation that replaces a later expiry bought before
C2_Witness ==
  /\ step.activated # 0
  /\ \E i \in 1..Len(payments) :
       /\ payments[i].status = "succeeded"
       /\ payments[i].yookassa_payment_id # step.reconciled
       /\ payments[i].months > step.activated
       /\ ~TimeLeq(add_months(payments[i].paid_at, payments[i].months),
                   StoredUser(step.chat_id).subscription_expires_at)

\* rows of taro_readings of one chat with the given number of cards
TaroRows(chat_id, cards_count) ==
  BagSum(taro_readings,
         {row \in BagToSet(taro_readings) :
            row.chat_id = chat_id /\ row.cards_count = cards_count})

TaroRowsOn(chat_id, cards_count, date_value) ==
  BagSum(taro_readings,
         {row \in BagToSet(taro_readings) :
            /\ row.chat_id = chat_id /\ row.cards_count = cards_count
            /\ DateOf(row.created_at) = date_value})

\* the step handled a question typed in state taro_ask_question
TaroQuestion(chat_id) ==
  /\ step.op = "update" /\ step.chat_id = chat_id
  /\ step.state = "taro_ask_question"
  /\ step.text \notin {L.BackToMenu, L.AskQuestion}

\* C3: a chat whose user is not paid never has more than one 3-card row in
\* taro_readings. Its first question adds exactly one 3-card row and ends
\* with the upsell keyboard; every later question gets the "already used"
\* message, adds no row, makes no completion call and leaves the session in
\* main_menu.
C3_FreeTaroOnce ==
  /\ [](\A c \in Chats : ~IsPaid(c) => TaroRows(c, 3) <= 1)
  /\ [][\A c \in Chats :
          (TaroQuestion(c)' /\ ~IsPaid(c))
            => IF TaroRows(c, 3) = 0
               THEN /\ taro_readings' =
                         taro_readings (+)
                           SetToBag({[chat_id |-> c, cards_count |-> 3, created_at |-> now]})
                    /\ step'.sent[Len(step'.sent)].keyboard = Kb.Upsell
                    /\ step'.ai_calls = 1
               ELSE /\ taro_readings' = taro_readings
                    /\ step'.ai_calls = 0
                    /\ step'.sent = <<Msg("taro_free_used", Kb.Upsell)>>
                    /\ StoredSession(c)'.state = "main_menu"]_vars

\* a free user has just been refused a second reading, on a later day
C3_Witness ==
  /\ TaroQuestion(101)
  /\ ~IsPaid(101)
  /\ step.sent = <<Msg("taro_free_used", Kb.Upsell)>>
  /\ TaroRows(101, 3) = 1
  /\ TaroRowsOn(101, 3, today) = 0

\* C4 as stated: a paid user never has more than 10 simple-tarot readings
\* (7-card rows, which only paid users get) created on the current day.
C4_PaidTaroDailyLimit ==
  \A c \in Chats : IsPaid(c) => TaroRowsOn(c, 7, today) <= 10

NumerologyRowsOn(chat_id, date_value) ==
  BagSum(numerology_readings,
         {row \in BagToSet(numerology_readings) :
            row.chat_id = chat_id /\ DateOf(row.created_at) = date_value})

HoroscopeRowsOn(chat_id, date_value) ==
  BagSum(horoscope_readings,
         {row \in BagToSet(horoscope_readings) :
            row.chat_id = chat_id /\ DateOf(row.created_at) = date_value})

\* the step handled a request for a reading, free or full variant
NumerologyRequest(chat_id) ==
  /\ step.op = "update" /\ step.chat_id = chat_id
  /\ step.state = "numerology_menu" /\ step.text \in {L.Free, L.FullAnalysis}

HoroscopeRequest(chat_id) ==
  /\ step.op = "update" /\ step.chat_id = chat_id
  /\ step.state = "horoscope_menu" /\ step.text \in {L.Free, L.FullHoroscope}

\* C5: a paid user never has more than 10 numerology rows nor more than 10
\* horoscope rows created on the current day, free and full variants counted
\* together. A request of a paid user below the limit adds one row; a request
\* at the limit gets the quota message, adds no row and makes no completion
\* call.
C5_PaidReadingsDailyLimit ==
  /\ [](\A c \in Chats :
          IsPaid(c) => NumerologyRowsOn(c, today) <= 10 /\ HoroscopeRowsOn(c, today) <= 10)
  /\ [][\A c \in Chats :
          /\ (NumerologyRequest(c)' /\ IsPaid(c))
               => IF NumerologyRowsOn(c, today) < 10
                  THEN /\ BagCardinality(numerology_readings') =
                            BagCardinality(numerology_readings) + 1
                       /\ step'.ai_calls = 1
                  ELSE /\ numerology_readings' = numerology_readings
                       /\ step'.ai_calls = 0
                       /\ step'.sent = <<Msg("numerology_quota", Kb.Back)>>
          /\ (HoroscopeRequest(c)' /\ IsPaid(c))
               => IF HoroscopeRowsOn(c, today) < 10
                  THEN /\ BagCardinality(horoscope_readings') =
                            BagCardinality(horoscope_readings) + 1
                       /\ step'.ai_calls = 1
                  ELSE /\ horoscope_readings' = horoscope_readings
                       /\ step'.ai_calls = 0
                       /\ step'.sent = <<Msg("horoscope_quota", Kb.Back)>>]_vars

\* a paid user is refused an 11th numerology reading after a day of both
\* variants, some of them with the completion adapter failing, while the
\* horoscope quota is used up as well
C5_Witness ==
  /\ NumerologyRequest(101)
  /\ IsPaid(101)
  /\ step.sent = <<Msg("numerology_quota", Kb.Back)>>
  /\ NumerologyRowsOn(101, today) = 10
  /\ HoroscopeRowsOn(101, today) = 10
  /\ \E row \in BagToSet(numerology_readings) : row.type = "money_code"
  /\ \E row \in BagToSet(numerology_readings) : row.type = "full"

\* companion replies logged for one chat, ever and on one day
PodruzhkaReplies(chat_id) ==
  BagSum(chat_messages,
         {row \in BagToSet(chat_messages) :
            row.chat_id = chat_id /\ row.role = "assistant" /\ row.feature = "podruzhka"})

PodruzhkaRepliesOn(chat_id, date_value) ==
  BagSum(chat_messages,
         {row \in BagToSet(chat_messages) :
            /\ row.chat_id = chat_id /\ row.role = "assistant" /\ row.feature = "podruzhka"
            /\ DateOf(row.created_at) = date_value})

\* the step handled a text typed in the given state
Typed(chat_id, state) ==
  step.op = "update" /\ step.chat_id = chat_id /\ step.state = state

\* the text contains one of the distress keywords, in any letter case
DistressText(text) ==
  LET low == lower(text) IN \E w \in DistressWords : Contains(low, w)

\* the step got an answer from the completion adapter
Answered == step.ai_calls = 1 /\ ~step.ai_failed

\* C8: a user who is not paid has at most one companion reply, ever. A reply
\* given in state podruzhka_free stamps podruzhka_free_used_at, and from then
\* on the companion button in the main menu is refused with the upsell
\* message, without a completion call, as long as the user is not paid.
C8_FreeCompanionOnce ==
  /\ [](\A c \in Chats :
          (UserRows(c) # {} /\ ~IsPaid(c))
            => /\ PodruzhkaReplies(c) <= 1
               /\ PodruzhkaReplies(c) = 1 <=> StoredUser(c).podruzhka_free_used_at # NoneTime)
  /\ [][\A c \in Chats :
          /\ (Typed(c, "podruzhka_free")' /\ Answered')
               => /\ StoredUser(c)'.podruzhka_free_used_at = now
                  /\ PodruzhkaReplies(c)' = PodruzhkaReplies(c) + 1
          /\ (/\ Typed(c, "main_menu")' /\ step'.text = L.Podruzhka
              /\ ~IsPaid(c) /\ StoredUser(c).podruzhka_free_used_at # NoneTime)
               => /\ step'.sent = <<Msg("podruzhka_free_used", Kb.Upsell)>>
                  /\ step'.ai_calls = 0
                  /\ StoredSession(c)'.state = "main_menu"
                  /\ chat_messages' = chat_messages]_vars

\* a free user who got the one reply on an earlier day is refused at the menu
C8_Witness ==
  /\ Typed(101, "main_menu") /\ step.text = L.Podruzhka
  /\ ~IsPaid(101)
  /\ step.sent = <<Msg("podruzhka_free_used", Kb.Upsell)>>
  /\ PodruzhkaReplies(101) = 1
  /\ PodruzhkaRepliesOn(101, today) = 0

\* C9: a chat never has more than 30 companion replies of the current day.
\* A text typed in state podruzhka_chat that is neither the end-of-talk button
\* nor a distress message is answered through the completion adapter while
\* the day's count is below 30; at 30 it makes no completion call, gets the
\* limit message followed by the main menu, and the session is in main_menu.
C9_PaidCompanionDailyLimit ==
  /\ [](\A c \in Chats : PodruzhkaRepliesOn(c, today) <= 30)
  /\ [][\A c \in Chats :
          (/\ Typed(c, "podruzhka_chat")' /\ step'.text # L.EndTalk
           /\ ~DistressText(step'.text))
            => IF PodruzhkaRepliesOn(c, today) < 30
               THEN /\ step'.ai_calls = 1
                    /\ StoredSession(c)'.state = "podruzhka_chat"
                    /\ PodruzhkaReplies(c)' =
                         PodruzhkaReplies(c) + (IF step'.ai_failed THEN 0 ELSE 1)
               ELSE /\ step'.ai_calls = 0
                    /\ step'.sent[1] = Msg("podruzhka_limit", Kb.Back)
                    /\ Len(step'.sent) = 2
                    /\ StoredSession(c)'.state = "main_menu"
                    /\ chat_messages' = chat_messages]_vars

\* the 31st message of a day is turned away
C9_Witness ==
  /\ Typed(101, "podruzhka_chat")
  /\ step.text = X.Hello
  /\ step.ai_calls = 0
  /\ step.sent[1] = Msg("podruzhka_limit", Kb.Back)
  /\ PodruzhkaRepliesOn(101, today) = 30
  /\ StoredSession(101).state = "main_menu"

\* C10: a text that contains a distress keyword, typed in state podruzhka_free
\* or podruzhka_chat, gets the safety message and nothing else: no completion
\* call, the session stays in its state, the users row (so the free reply) is
\* untouched, no reply is logged, and this is so whatever the day's count is.
C10_DistressGetsSafetyMessage ==
  [][\A c \in Chats :
       (/\ (Typed(c, "podruzhka_free")' \/ Typed(c, "podruzhka_chat")')
        /\ DistressText(step'.text))
         => /\ step'.sent = <<Msg("podruzhka_safety", Kb.EndTalk)>>
            /\ step'.ai_calls = 0
            /\ StoredSession(c)'.state = step'.state
            /\ users' = users
            /\ chat_messages' = chat_messages]_vars

\* a distress message typed when the day's quota is already used up
C10_Witness ==
  /\ Typed(101, "podruzhka_chat")
  /\ step.text = X.Distress
  /\ step.sent = <<Msg("podruzhka_safety", Kb.EndTalk)>>
  /\ PodruzhkaRepliesOn(101, today) = 30
  /\ StoredSession(101).state = "podruzhka_chat"

\* the same in the free chat, the free reply still unused
C10_WitnessFree ==
  /\ Typed(101, "podruzhka_free")
  /\ step.text = X.Distress
  /\ step.sent = <<Msg("podruzhka_safety", Kb.EndTalk)>>
  /\ StoredUser(101).podruzhka_free_used_at = NoneTime
  /\ StoredSession(101).state = "podruzhka_free"

(***************************************************************************)
(* Back to the menu                                                        *)
(***************************************************************************)
\* the states of the onboarding, which end with the first main menu
OnboardingStates == {"start", "ask_consent", "ask_name", "ask_birth_date"}

\* C11: in every state reached after onboarding, an update whose text is the
\* back-to-menu label ends with session.state = main_menu.
C11_BackToMenuResets ==
  (step.op = "update" /\ step.text = L.BackToMenu /\ step.state \notin OnboardingStates)
    => StoredSession(step.chat_id).state = "main_menu"

\* the states of the multi-step flows that keep data in the session, and the
\* keys they keep
SubflowStates ==
  {"taro_ask_question", "tarot_mode_topic", "tarot_mode_timeframe", "tarot_mode_cards",
   "tarot_mode_done", "await_payment"}

SubflowKeys == {"taro_type", "payment_id", "payment_months"} \cup TarotModeKeys

\* C12: when a multi-step flow is left for the main menu, session.data holds
\* no taro_type key, no tarot_mode_ key and no payment_id or payment_months key.
C12_AbandonedFlowCleared ==
  (/\ step.op = "update"
   /\ step.state \in SubflowStates
   /\ step.text \in {L.BackToMenu, L.ToMenu}
   /\ StoredSession(step.chat_id).state = "main_menu")
    => DOMAIN StoredSession(step.chat_id).data \cap SubflowKeys = {}

(***************************************************************************)
(* Menus                                                                   *)
(***************************************************************************)
MenuStates == {"main_menu", "taro_menu", "numerology_menu", "horoscope_menu", "subscription_menu"}

\* the button labels of the keyboard that each menu is rendered with
MenuLabels(state) ==
  LET keyboard == CASE state = "main_menu" -> Kb.Main
                    [] state = "taro_menu" -> Kb.TaroMenu
                    [] state = "numerology_menu" -> Kb.Numerology
                    [] state = "horoscope_menu" -> Kb.Horoscope
                    [] state = "subscription_menu" -> Kb.Tariffs
  IN  UNION {{keyboard[i][j] : j \in DOMAIN keyboard[i]} : i \in DOMAIN keyboard} 

\* C13: in a menu state, an input that is not one of the menu's button labels
\* re-renders the menu: the session row is unchanged, no reading, payment or
\* reminder row is created, and neither the completion adapter nor the payment
\* adapter is called.
C13_UnknownInputRerendersMenu ==
  [][\A c \in Chats :
       (/\ LastUpdateOf(c)'
        /\ step'.state \in MenuStates
        /\ step'.text \notin MenuLabels(step'.state))
         => /\ StoredSession(c)' = StoredSession(c)
            /\ UNCHANGED <<taro_readings, numerology_readings, horoscope_readings,
                           tarot_mode_logs, payments, reminders>>
            /\ step'.ai_calls = 0
            /\ step'.pay_calls = 0]_vars

(***************************************************************************)
(* Failing adapters                                                        *)
(***************************************************************************)
\* SpecAdapters: one onboarded chat that walks into every flow without a
\* subscription, pays or fails to pay, and then talks to the companion, while
\* the completion adapter and the payment adapter may fail at every call
AdapterTexts ==
  LET state == StateOf(101)
  IN  CASE state = "main_menu" /\ IsPaid(101) -> {L.Podruzhka}
        [] state = "main_menu" /\ ~IsPaid(101) ->
             {L.TaroSpread, L.TarotMode, L.Numerology, L.Horoscope, L.Podruzhka, L.Subscription}
        [] state = "taro_menu" -> {L.TaroDay}
        [] state = "taro_ask_question" -> {X.Question}
        [] state \in {"numerology_ask_surname", "horoscope_ask_surname"} -> {X.Surname}
        [] state = "horoscope_ask_birth_time" -> {X.Time}
        [] state \in {"numerology_menu", "horoscope_menu"} -> {L.Free}
        [] state = "tarot_mode_topic" -> {T.Work}
        [] state = "tarot_mode_timeframe" -> {T.Week}
        [] state = "tarot_mode_cards" -> {X.ThreeCards, L.ToMenu}
        [] state = "tarot_mode_done" -> {L.ToMenu}
        [] state \in {"podruzhka_free", "podruzhka_chat"} -> {X.Hello, L.EndTalk}
        [] state = "subscription_menu" -> {L.Month1}
        [] state = "await_payment" -> {L.CheckPayment}
        [] OTHER -> {L.BackToMenu}

NextAdapters ==
  \E raw_text \in Onboarded(101, AdapterTexts),
     ai \in AiChoices(101, AiOutcomes), pay \in PayChoices(101, PayOutcomes) :
    HandleUpdate(101, raw_text, ai, pay)

SpecAdapters == Init /\ [][NextAdapters]_vars

\* the "please wait" messages that precede a completion call
WaitMessages ==
  {"taro_wait", "numerology_wait", "numerology_wait_full", "horoscope_wait",
   "horoscope_wait_full", "tarot_mode_wait"}

C14_WitnessPayment ==
  /\ Typed(101, "subscription_menu")
  /\ step.pay_failed
  /\ step.sent = <<Msg("payment_create_failed", Kb.Back)>>
  /\ StoredSession(101).state = "main_menu"

(***************************************************************************)
(* One transition per update, written back                                 *)
(***************************************************************************)
\* C15: an update is dispatched once, on the session state that was stored
\* when it arrived: the in-memory pair it ends with is the result of one
\* transition from the stored rows, and the user row and the session row
\* stored afterwards are that pair, from which the next update starts.
C15_OneTransitionPersisted ==
  [][\A c \in Chats :
       LastUpdateOf(c)' =>
         /\ step'.state = StateOf(c)
         /\ \E ai \in AiOutcomes, pay \in PayOutcomes :
              LET e == Dispatch(Begin(get_or_create_session(c).row, get_or_create_user(c).row),
                                step'.text, ai, pay)
              IN  step'.user = e.user /\ step'.session = e.session
         /\ StoredUser(c)' = step'.user
         /\ StoredSession(c)' = step'.session
         /\ StateOf(c)' = step'.session.state]_vars

\* a tarot question: the update starts from the stored state taro_ask_question
\* with the tarot type in the data, and the stored pair is the one it ends with
C15_Witness ==
  /\ Typed(101, "taro_ask_question")
  /\ step.text = X.Question
  /\ step.session.state = "main_menu"
  /\ "taro_type" \in DOMAIN step.session.data
  /\ StoredSession(101) = step.session
  /\ StoredUser(101) = step.user
  /\ step.user.name = X.Anna

(***************************************************************************)
(* Crashes                                                                 *)
(***************************************************************************)
\* SpecCrash: one chat that onboards, asks tarot questions and buys a
\* subscription, while the process may stop before either write-back statement
\* of any update; the update that was being handled is then delivered again,
\* with the adapters answering as they did
CrashTexts ==
  LET state == StateOf(101)
  IN  CASE state = "main_menu" -> {L.TaroSpread, L.Subscription}
        [] state = "taro_menu" -> {L.TaroDay}
        [] state = "taro_ask_question" -> {X.Question}
        [] state = "subscription_menu" -> {L.Month1}
        [] state = "await_payment" -> {L.CheckPayment}
        [] OTHER -> {L.BackToMenu}

Crashed == step.op = "crash"

Redelivered(alphabet) == IF Crashed THEN {step.text} ELSE alphabet

AiAgain(outcomes) == IF Crashed THEN {step.ai} ELSE outcomes

PayAgain(outcomes) == IF Crashed THEN {step.pay} ELSE outcomes

NextCrash ==
  \/ \E raw_text \in Redelivered(Onboarded(101, CrashTexts)),
        ai \in AiAgain(AiChoices(101, AiOutcomes)),
        pay \in PayAgain(PayChoices(101, {"pending", "succeeded"})) :
       HandleUpdate(101, raw_text, ai, pay)
  \/ \E raw_text \in Redelivered(Onboarded(101, CrashTexts)),
        ai \in AiAgain(AiChoices(101, AiOutcomes)),
        pay \in PayAgain(PayChoices(101, {"pending", "succeeded"})),
        point \in CrashPoints :
       HandleUpdateCrash(101, raw_text, ai, pay, point)

SpecCrash == Init /\ [][NextCrash]_vars

\* C16: the write-back of an update is atomic: there is no durable state, also
\* after a crash, in which the user row of the update has been written and its
\* session row has not.
C16_WriteBackAtomic ==
  ~(/\ Crashed
    /\ step.point = "save_session"
    /\ StoredUser(step.chat_id) = step.user
    /\ StoredSession(step.chat_id) # step.session)

\* C17: when an update is handled again after a crash, the durable state it
\* ends with is the one of the uninterrupted run: the user and the session the
\* interrupted run held in memory, and the readings, payments and reminders it
\* had written; in particular a payment stored as succeeded belongs to a paid
\* user.
C17_CrashOnlyDuplicatesMessages ==
  [][\A c \in Chats :
       (Crashed /\ step.chat_id = c /\ LastUpdateOf(c)') =>
         /\ StoredUser(c)' = step.user
         /\ StoredSession(c)' = step.session
         /\ UNCHANGED <<taro_readings, numerology_readings, horoscope_readings,
                        tarot_mode_logs, payments, reminders>>
         /\ (\E i \in DOMAIN payments' :
               payments'[i].chat_id = c /\ payments'[i].status = "succeeded")
              => StoredUser(c)'.subscription = "paid"]_vars

(***************************************************************************)
(* SpecPoll: the poll loop of bot.main against the messaging service, one  *)
(* chat sending the first messages of its onboarding; handle_update may    *)
(* raise, the offset file and the reminder query may fail, and the process *)
(* may be restarted at any point of the loop                               *)
(***************************************************************************)
PollTexts == {L.Start, W.da}

LoopStep ==
  \/ \E ok \in BOOLEAN : GetUpdates(ok)
  \/ HandleNext
  \/ HandleRaises
  \/ \E ok \in BOOLEAN : SaveOffset(ok)
  \/ \E ok \in BOOLEAN : SendDueReminders(ok)
  \/ Sleep

NextPoll ==
  \/ \E raw_text \in PollTexts : Arrive(101, raw_text)
  \/ \E ok \in BOOLEAN : GetUpdates(ok)
  \/ HandleNext
  \/ HandleRaises
  \/ \E ok \in BOOLEAN : SaveOffset(ok)
  \/ \E ok \in BOOLEAN : SendDueReminders(ok)
  \/ Sleep
  \/ Restart

SpecPoll == Init /\ [][NextPoll]_vars

\* a running process executes the next statement of its loop: every request
\* and every sleep of the loop is bounded by a timeout
SpecPollFair == Init /\ [][NextPoll]_vars /\ WF_vars(LoopStep)

HandledIds == {handled[i] : i \in DOMAIN handled}

Skipped(update_id) == update_id < confirmed /\ update_id \notin HandledIds

\* C18: the offset passes an update only after the update has been handled
\* to the end: no update that the messaging service has been told to drop
\* (a poll carried an offset above its update_id) is one for which
\* handle_update has never returned.
C18_NoUpdateSkipped ==
  \A i \in DOMAIN inbox : ~Skipped(inbox[i].update_id)

PollOps == {"get_updates", "get_updates_failed"}

\* C19: the updates of a batch are handled one at a time in the order of the
\* batch; the offset written after a batch whose updates have all been handled
\* is the last handled update_id + 1; and a poll never returns an update
\* below the offset it carries or below the persisted offset.
C19_InOrderAndOffsetPastLast ==
  [][/\ handled' # handled =>
          /\ index < Len(updates)
          /\ handled' = Append(handled, updates[index + 1].update_id)
          /\ index' = index + 1
          /\ \A j \in 1..index : updates[j].update_id < updates[index + 1].update_id
     /\ (offset_file' # offset_file /\ updates # <<>>) =>
          /\ index = Len(updates)
          /\ offset_file' = updates[Len(updates)].update_id + 1
          /\ handled # <<>> /\ offset_file' = handled[Len(handled)] + 1
     /\ step'.op \in PollOps =>
          \A j \in DOMAIN updates' :
             /\ updates'[j].update_id >= offset
             /\ updates'[j].update_id >= offset_file]_vars

\* a batch of two was handled, its offset persisted, and the loop polled again
C19_Witness ==
  /\ step.op = "get_updates"
  /\ Len(handled) >= 2
  /\ offset_file = handled[Len(handled)] + 1

Failures ==
  {"get_updates_failed", "handle_update_raises", "save_offset_raises", "reminders_raises"}

\* C20: the poll loop survives every exception: after a failed fetch, an
\* exception of handle_update, a failed write of the offset or a failed
\* reminder pass, the loop polls again.
C20_LoopSurvivesExceptions ==
  (step.op \in Failures) ~> (pc = "poll")

\* an exception was caught, the loop slept and stands at the next poll
C20_Witness == step.op = "sleep" /\ pc = "poll"

(***************************************************************************)
(* SpecMonths: _add_months applied to the dates of two years, a leap year  *)
(* and a common year, and to every month count up to MaxMonths             *)
(***************************************************************************)
MonthsYears == {2023, 2024}

MonthsDays == {1, 28, 29, 30, 31}

MonthsInputs ==
  {[op |-> "input", value |-> [year |-> y, month |-> m, day |-> d, minute |-> 1435],
    months |-> n] :
     y \in MonthsYears, m \in 1..12, d \in MonthsDays, n \in 0..MaxMonths}

InitMonths ==
  /\ Fresh
  /\ step \in {i \in MonthsInputs : i.value.day <= monthrange(i.value.year, i.value.month)}

AddMonths ==
  /\ step.op = "input"
  /\ step' = [op |-> "add_months", value |-> step.value, months |-> step.months,
              result |-> add_months(step.value, step.months)]
  /\ Computes

NextMonths == AddMonths

SpecMonths == InitMonths /\ [][NextMonths]_vars

DaysIn(year, month) ==
  CASE month \in {1, 3, 5, 7, 8, 10, 12} -> 31
    [] month \in {4, 6, 9, 11} -> 30
    [] month = 2 /\ year % 4 = 0 /\ (year % 100 # 0 \/ year % 400 = 0) -> 29
    [] OTHER -> 28

ValidDate(d) == d.month \in 1..12 /\ d.day \in 1..DaysIn(d.year, d.month)

\* C28: _add_months(value, N) is a valid date N calendar months later: the
\* month is ((value.month - 1 + N) mod 12) + 1, the year advances by the
\* carried years, the day is the smaller of value.day and the length of the
\* target month, the time of day is kept; January 31 plus one month is the
\* last day of February.
C28_AddMonthsClampsDay ==
  step.op = "add_months" =>
    LET v == step.value
        n == step.months
        r == step.result
    IN  /\ ValidDate(r)
        /\ r.month = ((v.month - 1 + n) % 12) + 1
        /\ r.year = v.year + (v.month - 1 + n) \div 12
        /\ r.day = IF v.day <= DaysIn(r.year, r.month) THEN v.day ELSE DaysIn(r.year, r.month)
        /\ r.minute = v.minute
        /\ (v.month = 1 /\ v.day = 31 /\ n = 1) =>
              (r.month = 2 /\ r.day = DaysIn(v.year, 2))

\* January 31 of the leap year plus one month is February 29
C28_Witness ==
  /\ step.op = "add_months"
  /\ step.value = [year |-> 2024, month |-> 1, day |-> 31, minute |-> 1435]
  /\ step.months = 1
  /\ step.result = [year |-> 2024, month |-> 2, day |-> 29, minute |-> 1435]

\* January 31 of the common year plus one month is February 28
C28_WitnessCommonYear ==
  /\ step.op = "add_months"
  /\ step.value = [year |-> 2023, month |-> 1, day |-> 31, minute |-> 1435]
  /\ step.months = 1
  /\ step.result = [year |-> 2023, month |-> 2, day |-> 28, minute |-> 1435]

(***************************************************************************)
(* SpecParse: _parse_tarot_cards applied to every message of up to         *)
(* MaxLines lines drawn from card lines of known kinds                     *)
(***************************************************************************)
\* a line with a name and a recognised orientation is upright or reversed;
\* a line without a name, without an orientation or with an unrecognised
\* orientation word is bad
CardLines ==
  {[text |-> <<1052, 1072, 1075, 32, 40, 1087, 1088, 1103, 1084, 1072, 1103, 41>>, kind |-> "upright"],  \* "Маг (прямая)"
   [text |-> <<1064, 1091, 1090, 32, 45, 32, 1087, 1077, 1088, 1077, 1074>>, kind |-> "reversed"],  \* "Шут - перев"
   [text |-> <<1052, 1080, 1088, 32, 1086, 1073, 1088, 1072, 1090, 1085, 1072, 1103>>, kind |-> "reversed"],  \* "Мир обратная"
   [text |-> <<50, 41, 32, 1064, 1091, 1090, 32, 40, 1087, 1077, 1088, 1077, 1074, 41>>, kind |-> "reversed"],  \* "2) Шут (перев)"
   [text |-> <<1052, 1072, 1075, 32, 40, 1073, 1086, 1082, 1086, 1084, 41>>, kind |-> "bad"],  \* "Маг (боком)"
   [text |-> <<1052, 1072, 1075>>, kind |-> "bad"],  \* "Маг"
   [text |-> <<1085, 1077, 1090, 32, 40, 1073, 1086, 1082, 1086, 1084, 41>>, kind |-> "bad"]}  \* "нет (боком)"

CardLists == UNION {[1..n -> CardLines] : n \in 1..MaxLines}

\* the message a user types: one card line per line
RECURSIVE CardMessage(_)
CardMessage(lines) ==
  IF Len(lines) = 1 THEN lines[1].text
  ELSE lines[1].text \o <<10>> \o CardMessage(Tail(lines))

InitParse ==
  /\ Fresh
  /\ step \in {[op |-> "input", lines |-> lines] : lines \in CardLists}

ParseTarotCards ==
  /\ step.op = "input"
  /\ step' = [op |-> "parse_tarot_cards", lines |-> step.lines,
              result |-> parse_tarot_cards(CardMessage(step.lines))]
  /\ Computes

NextParse == ParseTarotCards

SpecParse == InitParse /\ [][NextParse]_vars

OrientationOf(kind) == IF kind = "upright" THEN T.Upright ELSE T.Reversed

\* C27: the parse is all or nothing: a message is parsed into a list exactly
\* when none of its lines is bad, and the list then has one card per line,
\* in order, with the orientation of the line.
C27_ParseAllOrNothing ==
  step.op = "parse_tarot_cards" =>
    LET lines == step.lines
        r == step.result
    IN  /\ r.ok <=> (\A i \in DOMAIN lines : lines[i].kind # "bad")
        /\ r.ok => /\ Len(r.cards) = Len(lines)
                   /\ \A i \in DOMAIN lines :
                        r.cards[i].orientation = OrientationOf(lines[i].kind)

(***************************************************************************)
(* SpecTarotMode: one onboarded chat on the free tier going through the    *)
(* tarot mode; the completion adapter proposes spreads of several sizes or *)
(* fails, the user sends card lists of several lengths, midnight may pass  *)
(***************************************************************************)
\* spread texts of the completion adapter, each with the card count the
\* pattern "(N kart" gives it: N of the first pattern if 3 <= N <= 7, else 5
SpreadCases ==
  {[text |-> <<1058, 1088, 1080, 32, 1082, 1072, 1088, 1090, 1099, 32, 40, 51, 32, 1082, 1072, 1088, 1090, 41>>, count |-> 3],  \* "Три карты (3 карт)"
   [text |-> <<1050, 1088, 1077, 1089, 1090, 32, 40, 55, 32, 1082, 1072, 1088, 1090, 41>>, count |-> 7],  \* "Крест (7 карт)"
   [text |-> <<1050, 1088, 1091, 1075, 32, 40, 56, 32, 1082, 1072, 1088, 1090, 41>>, count |-> 5],  \* "Круг (8 карт)"
   [text |-> <<1055, 1072, 1088, 1072, 32, 40, 50, 32, 1082, 1072, 1088, 1090, 1099, 41>>, count |-> 5],  \* "Пара (2 карты)"
   [text |-> <<1042, 1099, 1090, 1103, 1085, 1080, 32, 1082, 1072, 1088, 1090, 1099>>, count |-> 5],  \* "Вытяни карты"
   [text |-> <<1048, 1083, 1080, 32, 40, 49, 48, 32, 1082, 1072, 1088, 1090, 41, 44, 32, 1080, 1083, 1080, 32, 40, 52, 32, 1082, 1072, 1088, 1090, 1099, 41>>, count |-> 5],  \* "Или (10 карт), или (4 карты)"
   [text |-> <<1048, 1083, 1080, 32, 40, 52, 32, 1082, 1072, 1088, 1090, 1099, 41, 44, 32, 1080, 1083, 1080, 32, 40, 54, 32, 1082, 1072, 1088, 1090, 41>>, count |-> 4],  \* "Или (4 карты), или (6 карт)"
   [text |-> <<1055, 1091, 1090, 1100, 32, 40, 54, 32, 32, 1082, 1072, 1088, 1090, 41>>, count |-> 6]}  \* "Путь (6  карт)"

SpreadOutcomes == {[ok |-> TRUE, content |-> c.text] : c \in SpreadCases} \cup {AiFail}

DrawnCards ==
  <<<<1052, 1072, 1075, 32, 40, 1087, 1088, 1103, 1084, 1072, 1103, 41>>,  \* "Маг (прямая)"
   <<1064, 1091, 1090, 32, 45, 32, 1087, 1077, 1088, 1077, 1074>>,  \* "Шут - перев"
   <<1052, 1080, 1088, 32, 1086, 1073, 1088, 1072, 1090, 1085, 1072, 1103>>,  \* "Мир обратная"
   <<1057, 1091, 1076, 32, 40, 1087, 1088, 1103, 1084, 41>>,  \* "Суд (прям)"
   <<1052, 1072, 1075, 32, 45, 32, 1086, 1073, 1088, 1072, 1090>>,  \* "Маг - обрат"
   <<1064, 1091, 1090, 32, 1087, 1077, 1088, 1077, 1074>>>>  \* "Шут перев"

CardCounts == 2..Len(DrawnCards)

\* the message of the first k drawn cards, one per line
RECURSIVE CardsMessage(_)
CardsMessage(k) ==
  IF k = 1 THEN DrawnCards[1] ELSE CardsMessage(k - 1) \o <<10>> \o DrawnCards[k]

TarotModeTexts ==
  LET state == StateOf(101)
  IN  CASE state = "main_menu" -> {L.TarotMode}
        [] state = "tarot_mode_topic" -> {T.Work}
        [] state = "tarot_mode_timeframe" -> {T.Week}
        [] state = "tarot_mode_cards" -> {CardsMessage(k) : k \in CardCounts} \cup {L.ToMenu}
        [] state = "tarot_mode_done" -> {L.OneMoreSpread, L.ToMenu}
        [] OTHER -> {L.BackToMenu}

TarotModeAi ==
  IF StateOf(101) = "tarot_mode_timeframe" THEN SpreadOutcomes
  ELSE IF StateOf(101) = "tarot_mode_cards" THEN AiOutcomes
  ELSE {AiFail}

NextTarotMode ==
  \/ \E raw_text \in Onboarded(101, TarotModeTexts), ai \in TarotModeAi :
        HandleUpdate(101, raw_text, ai, "error")
  \/ Tick(DayTick)

SpecTarotMode == Init /\ [][NextTarotMode]_vars

AskedSpread ==
  /\ LastUpdateOf(101)
  /\ step.state = "tarot_mode_timeframe"
  /\ StoredSession(101).state = "tarot_mode_cards"

\* C25: the card count stored on entering tarot_mode_cards is an integer in
\* 3..7: the number N of the first "(N kart" pattern of the spread text when
\* 3 <= N <= 7, and 5 when the text has no such pattern, when N is outside
\* 3..7 and when the adapter failed.
C25_CardsCountClamped ==
  AskedSpread =>
    LET data == StoredSession(101).data
    IN  /\ data["tarot_mode_cards_required"] \in 3..7
        /\ step.ai_failed => data["tarot_mode_cards_required"] = 5
        /\ ~step.ai_failed =>
              \E c \in SpreadCases :
                 /\ data["tarot_mode_spread_text"] = c.text
                 /\ data["tarot_mode_cards_required"] = c.count

\* a spread of three cards is stored as 3
C25_Witness ==
  /\ AskedSpread
  /\ StoredSession(101).data["tarot_mode_cards_required"] = 3

\* a spread of eight cards is stored as 5
C25_WitnessDefault ==
  /\ AskedSpread
  /\ StoredSession(101).data["tarot_mode_spread_text"] =
       <<1050, 1088, 1091, 1075, 32, 40, 56, 32, 1082, 1072, 1088, 1090, 41>>
  /\ StoredSession(101).data["tarot_mode_cards_required"] = 5

\* C26: in tarot_mode_cards with expected count N, a list of k cards with
\* k # N is rejected: one re-prompt is sent, the completion adapter is not
\* called, no tarot_mode_logs row is written and the session stays in
\* tarot_mode_cards with its data as they were; a list of exactly N cards
\* goes to the completion adapter.
C26_WrongCountRejected ==
  [][\A k \in CardCounts :
       (/\ StateOf(101) = "tarot_mode_cards"
        /\ LastUpdateOf(101)'
        /\ step'.text = CardsMessage(k)) =>
         IF k # StoredSession(101).data["tarot_mode_cards_required"]
         THEN /\ Len(step'.sent) = 1
              /\ step'.sent[1].text = "tarot_mode_cards_count"
              /\ step'.ai_calls = 0
              /\ tarot_mode_logs' = tarot_mode_logs
              /\ StoredSession(101)'.state = "tarot_mode_cards"
              /\ StoredSession(101)'.data = StoredSession(101).data
         ELSE /\ step'.ai_calls = 1
              /\ StoredSession(101)'.state \in {"tarot_mode_done", "main_menu"}]_vars

\* with five cards expected, a list of four and a list of six are answered by
\* the re-prompt
C26_Witness ==
  /\ LastUpdateOf(101)
  /\ step.state = "tarot_mode_cards"
  /\ step.text = CardsMessage(4)
  /\ step.sent[1].text = "tarot_mode_cards_count"
  /\ StoredSession(101).state = "tarot_mode_cards"
  /\ StoredSession(101).data["tarot_mode_cards_required"] = 5

C26_WitnessSix ==
  /\ LastUpdateOf(101)
  /\ step.state = "tarot_mode_cards"
  /\ step.text = CardsMessage(6)
  /\ step.sent[1].text = "tarot_mode_cards_count"
  /\ StoredSession(101).data["tarot_mode_cards_required"] = 5

\* with five cards expected, a list of five is interpreted and logged
C26_WitnessFive ==
  /\ LastUpdateOf(101)
  /\ step.state = "tarot_mode_cards"
  /\ step.text = CardsMessage(5)
  /\ step.session.state = "tarot_mode_done"
  /\ tarot_mode_logs # EmptyBag

RetentionPending(chat_id) ==
  \E i \in DOMAIN reminders :
     /\ reminders[i].chat_id = chat_id
     /\ reminders[i].message \in RETENTION_MESSAGES
     /\ reminders[i].sent_at = NoneTime

\* C29: when the completion adapter fails on a tarot question, the user gets
\* the result message with the fallback text, a retention reminder is pending
\* for the chat, and the session is stored in main_menu.
C29_FailedTaroReturnsToMenu ==
  \A c \in Chats :
     (TaroQuestion(c) /\ step.ai_failed) =>
       /\ step.sent[Len(step.sent)].text = "taro_result"
       /\ RetentionPending(c)
       /\ StoredSession(c).state = "main_menu"

CompanionStates == {"podruzhka_free", "podruzhka_chat"}

CompanionFallbacks == {"podruzhka_free_fallback", "podruzhka_chat_fallback"}

\* C30: when the completion adapter fails in a companion-chat state, the
\* fallback message is sent, the session is stored in the state it was in,
\* and in podruzhka_free the free reply is not spent.
C30_FailedCompanionKeepsPosition ==
  \A c \in Chats :
     (LastUpdateOf(c) /\ step.state \in CompanionStates /\ step.ai_failed) =>
       /\ step.sent[Len(step.sent)].text \in CompanionFallbacks
       /\ StoredSession(c).state = step.state
       /\ step.state = "podruzhka_free" => StoredUser(c).podruzhka_free_used_at = NoneTime

KnownPayments == {payments[i].yookassa_payment_id : i \in DOMAIN payments}

\* C23: a reconciliation that observes 'succeeded' for a payment whose row is
\* not yet succeeded leaves the user 'paid' with the expiry the row's month
\* count after the current time, the row 'succeeded' with its paid_at set, the
\* activation message sent and the session stored in main_menu.
C23_SucceededActivates ==
  [][\A c \in Chats, id \in KnownPayments :
       (step'.observed = "succeeded" /\ step'.chat_id = c /\ step'.reconciled = id) =>
         /\ get_payment_by_id(id).status # "succeeded"
         /\ StoredUser(c)'.subscription = "paid"
         /\ StoredUser(c)'.subscription_expires_at =
              add_months(now, get_payment_by_id(id).months)
         /\ get_payment_by_id(id)'.status = "succeeded"
         /\ get_payment_by_id(id)'.paid_at = now
         /\ get_payment_by_id(id)'.paid_at # NoneTime
         /\ \E i \in DOMAIN step'.sent : step'.sent[i].text = "payment_succeeded"
         /\ StoredSession(c)'.state = "main_menu"]_vars

\* a scheduled check has just activated a month
C23_Witness ==
  /\ step.op = "payment_check"
  /\ step.observed = "succeeded"
  /\ StoredUser(step.chat_id).subscription = "paid"
  /\ get_payment_by_id(step.reconciled).paid_at # NoneTime
  /\ StoredSession(step.chat_id).state = "main_menu"

\* the same from the "check payment" button
C23_WitnessManual ==
  /\ step.op = "update"
  /\ step.observed = "succeeded"
  /\ StoredUser(step.chat_id).subscription = "paid"

\* C24: a reconciliation that observes a status other than 'succeeded' stores
\* the status on the payment row and leaves the user's subscription and expiry
\* as they were; for 'canceled' the tariff prompt is sent and the session is
\* stored in subscription_menu; for any other status the session is stored in
\* await_payment and the 'still pending' message is sent by a manual check
\* and never by a scheduled one.
C24_NotSucceededKeepsSubscription ==
  [][\A c \in Chats, id \in KnownPayments :
       (step'.observed \notin {"", "succeeded"} /\ step'.chat_id = c /\ step'.reconciled = id) =>
         /\ get_payment_by_id(id)'.status = step'.observed
         /\ StoredUser(c)'.subscription = StoredUser(c).subscription
         /\ StoredUser(c)'.subscription_expires_at = StoredUser(c).subscription_expires_at
         /\ IF step'.observed = "canceled"
            THEN /\ step'.sent = <<Msg("payment_canceled", Kb.Tariffs)>>
                 /\ StoredSession(c)'.state = "subscription_menu"
            ELSE /\ StoredSession(c)'.state = "await_payment"
                 /\ step'.op = "update" => step'.sent = <<Msg("payment_pending", Kb.Payment)>>
                 /\ step'.op = "payment_check" => step'.sent = <<>>]_vars

\* a scheduled check has met a pending payment and stayed silent
C24_Witness ==
  /\ step.op = "payment_check"
  /\ step.observed = "pending"
  /\ step.sent = <<>>
  /\ get_payment_by_id(step.reconciled).status = "pending"
  /\ StoredSession(step.chat_id).state = "await_payment"

\* a manual check has met a canceled payment
C24_WitnessCanceled ==
  /\ step.op = "update"
  /\ step.observed = "canceled"
  /\ get_payment_by_id(step.reconciled).status = "canceled"
  /\ StoredSession(step.chat_id).state = "subscription_menu"

\* a manual check has met a pending payment and said so
C24_WitnessManual ==
  /\ step.op = "update"
  /\ step.observed = "pending"
  /\ Len(step.sent) = 1

(***************************************************************************)
(* SpecPass: SpecPay with scheduler passes in which the handling of a due  *)
(* reminder may raise                                                      *)
(***************************************************************************)
NextPass ==
  \/ \E raw_text \in Onboarded(101, PayTexts), pay \in PayChoices(101, {"error", "pending"}) :
        HandleUpdate(101, raw_text, AiFail, pay)
  \/ BeginPass
  \/ \E pay \in {"error", "pending"} : PassStep(pay)
  \/ PassRaises
  \/ Tick(PayTick)

SpecPass == Init /\ [][NextPass]_vars

\* C21: within a pass a failure on one due reminder leaves the others to be
\* handled: every step of the pass takes the first due reminder off the list
\* and keeps the rest, and unless it raised it marks that reminder as sent.
C21_FailureDoesNotStopPass ==
  [][(due # <<>> /\ due' # due) =>
       /\ due' = Tail(due)
       /\ step'.op # "reminder_raises" => reminders'[Head(due)].sent_at # NoneTime]_vars

(***************************************************************************)
(* SpecRetention: one onboarded chat that asks its free tarot question and *)
(* may subscribe, before or after the retention reminder is due; the       *)
(* scheduler runs its passes                                               *)
(***************************************************************************)
RetentionTexts ==
  LET state == StateOf(101)
  IN  CASE state = "main_menu" /\ ~IsPaid(101) -> {L.TaroSpread, L.Subscription}
        [] state = "main_menu" /\ IsPaid(101) -> {L.TaroSpread}
        [] state = "taro_menu" -> {L.TaroDay, L.BackToMenu}
        [] state = "taro_ask_question" -> {X.Question}
        [] state = "subscription_menu" -> {L.Month1}
        [] state = "await_payment" -> {L.CheckPayment}
        [] OTHER -> {L.BackToMenu}

NextRetention ==
  \/ \E raw_text \in Onboarded(101, RetentionTexts), ai \in AiChoices(101, AiOutcomes),
         pay \in PayChoices(101, {"pending", "succeeded"}) :
        HandleUpdate(101, raw_text, ai, pay)
  \/ BeginPass
  \/ \E pay \in {"pending", "succeeded"} : PassStep(pay)
  \/ Later(RetentionDelayMinutes)

SpecRetention == Init /\ [][NextRetention]_vars

\* the retention messages delivered to a chat so far
RetentionDeliveries(chat_id) ==
  BagSum(chat_messages,
         {row \in BagToSet(chat_messages) :
            row.chat_id = chat_id /\ row.source = "reminder"})

\* the pass is about to handle a retention reminder of the chat
RetentionDue(chat_id) ==
  /\ due # <<>>
  /\ reminders[Head(due)].chat_id = chat_id
  /\ reminders[Head(due)].message \in RETENTION_MESSAGES

\* C22: a due retention reminder of a user who is paid or already has
\* retention_message_sent_at is marked sent and nothing is delivered, logged
\* or written to the user; otherwise the message is delivered and logged, the
\* user's retention_message_sent_at is stamped and the reminder is marked
\* sent. A chat never has more than one delivered retention message, and a
\* paid chat gets none.
C22_RetentionAtMostOnce ==
  /\ [][\A c \in Chats :
          (RetentionDue(c) /\ due' = Tail(due)) =>
            /\ reminders'[Head(due)].sent_at # NoneTime
            /\ IF StoredUser(c).subscription = "paid"
                  \/ StoredUser(c).retention_message_sent_at # NoneTime
               THEN /\ step'.sent = <<>>
                    /\ chat_messages' = chat_messages
                    /\ users' = users
               ELSE /\ Len(step'.sent) = 1
                    /\ RetentionDeliveries(c)' = RetentionDeliveries(c) + 1
                    /\ StoredUser(c)'.retention_message_sent_at = now]_vars
  /\ [](\A c \in Chats : RetentionDeliveries(c) <= 1)
  /\ [][\A c \in Chats :
          IsPaid(c) => RetentionDeliveries(c)' = RetentionDeliveries(c)]_vars

\* a retention message has been delivered and stamped
C22_Witness ==
  /\ step.op = "reminder"
  /\ Len(step.sent) = 1
  /\ RetentionDeliveries(101) = 1
  /\ StoredUser(101).retention_message_sent_at # NoneTime
  /\ StoredUser(101).subscription # "paid"

\* the retention reminder of a user who subscribed in the meantime was skipped
C22_WitnessSkipped ==
  /\ step.op = "retention_skip"
  /\ IsPaid(101)
  /\ RetentionDeliveries(101) = 0
  /\ \E i \in DOMAIN reminders :
        reminders[i].message \in RETENTION_MESSAGES /\ reminders[i].sent_at # NoneTime

(***************************************************************************)
(* SpecSchedule: one onboarded chat that asks its free tarot question and  *)
(* starts payments, with a scheduler that keeps running its passes, as the *)
(* loop of bot.main calls _send_due_reminders on every iteration           *)
(***************************************************************************)
ScheduleOutcomes == {"pending", "succeeded"}

NextSchedule ==
  \/ \E raw_text \in Onboarded(101, RetentionTexts), ai \in AiChoices(101, {AiOk}),
         pay \in PayChoices(101, {"pending"}) :
        HandleUpdate(101, raw_text, ai, pay)
  \/ BeginPass
  \/ \E pay \in ScheduleOutcomes : PassStep(pay)
  \/ Tick(PayTick)
  \/ Later(RetentionDelayMinutes)

\* the scan of a pass and the loop moving on to the next due reminder: the
\* steps BeginPass and PassStep take, enabled when they are
ScanStarts == due = <<>> /\ due' = get_due_reminders(now)

PassAdvances == due # <<>> /\ due' = Tail(due)

SpecSchedule == Init /\ [][NextSchedule]_vars /\ WF_due(ScanStarts) /\ WF_due(PassAdvances)

ReminderIds == 1..(Len(PaymentCheckMinutes) * MaxPayments + 1)

PassOps == {"reminder", "retention_skip", "payment_check"}

Overdue(i) ==
  /\ i \in DOMAIN reminders
  /\ reminders[i].sent_at = NoneTime
  /\ TimeLeq(reminders[i].send_at, now)

MarkedSent(i) == i \in DOMAIN reminders /\ reminders[i].sent_at # NoneTime

\* C31: the scheduler acts only on a reminder whose send_at has passed and
\* that is not marked sent, and marks it sent in the same step; a reminder
\* goes from unsent to sent only that way and never back, so it is acted on at
\* most once; the scan that starts a pass takes every overdue reminder, and an
\* overdue reminder is eventually marked sent.
C31_DueRemindersActedOnce ==
  /\ [][step'.op \in PassOps =>
          /\ due # <<>>
          /\ Overdue(Head(due))
          /\ reminders'[Head(due)].sent_at # NoneTime
          /\ \A i \in DOMAIN reminders : i # Head(due) => reminders'[i] = reminders[i]]_vars
  /\ [][\A i \in DOMAIN reminders :
          /\ MarkedSent(i) => reminders'[i] = reminders[i]
          /\ (~MarkedSent(i) /\ MarkedSent(i)') => (step'.op \in PassOps /\ Head(due) = i)]_vars
  /\ [][step'.op = "scan" => \A i \in DOMAIN reminders : Overdue(i) => \E k \in DOMAIN due' : due'[k] = i]_vars
  /\ \A i \in ReminderIds : Overdue(i) ~> MarkedSent(i)

\* a pass has run a payment check for the reminder that was due and marked it
\* sent, while the later check of the same payment is still waiting
C31_Witness ==
  /\ step.op = "payment_check"
  /\ \E i, j \in DOMAIN reminders :
        /\ MarkedSent(i)
        /\ TimeLeq(reminders[i].send_at, now)
        /\ reminders[j].sent_at = NoneTime
        /\ ~TimeLeq(reminders[j].send_at, now)

(***************************************************************************)
(* SpecPaidOnly: one onboarded chat that asks for tarot, numerology and    *)
(* horoscope readings, the full reports included, before and after it has  *)
(* bought a month                                                          *)
(***************************************************************************)
PaidOnlyTexts ==
  LET state == StateOf(101)
  IN  CASE state \in {"numerology_ask_surname", "horoscope_ask_surname"} -> {X.Surname}
        [] state = "horoscope_ask_birth_time" -> {X.Time}
        [] state = "numerology_menu" -> {L.FullAnalysis, L.BackToMenu}
        [] state = "horoscope_menu" -> {L.FullHoroscope, L.BackToMenu}
        [] state = "taro_menu" -> {L.TaroDay, L.BackToMenu}
        [] state = "taro_ask_question" -> {X.Question}
        [] OTHER -> {L.Numerology, L.Horoscope, L.TaroSpread}

NextPaidOnly ==
  \E raw_text \in Onboarded(101, Buying(101, PaidOnlyTexts)),
     ai \in AiChoices(101, AiOutcomes), pay \in PayChoices(101, {"succeeded"}) :
    HandleUpdate(101, raw_text, ai, pay)

SpecPaidOnly == Init /\ [][NextPaidOnly]_vars

\* the paid-only rows of a chat
PaidOnlyRows(chat_id) ==
  BagSum(numerology_readings,
         {row \in BagToSet(numerology_readings) : row.chat_id = chat_id /\ row.type = "full"})
  + BagSum(horoscope_readings,
           {row \in BagToSet(horoscope_readings) : row.chat_id = chat_id /\ row.type = "full"})
  + BagSum(taro_readings,
           {row \in BagToSet(taro_readings) : row.chat_id = chat_id /\ row.cards_count = 7})

FullReportAsked ==
  \/ step.state = "numerology_menu" /\ step.text = L.FullAnalysis
  \/ step.state = "horoscope_menu" /\ step.text = L.FullHoroscope

UpsellTexts == {"numerology_paid_only", "horoscope_paid_only"}

\* C32: a numerology or horoscope reading of type full and a tarot reading of
\* seven cards are created only by an update of a user whose subscription is
\* paid; when a user who is not paid asks for a full report the update sends
\* the subscription upsell alone, creates no reading row and makes no call to
\* the completion adapter.
C32_PaidOnlyArtifacts ==
  [][\A c \in Chats :
       /\ PaidOnlyRows(c)' # PaidOnlyRows(c) =>
            /\ step'.op = "update" /\ step'.chat_id = c
            /\ IsPaid(c)
            /\ step'.user.subscription = "paid"
       /\ (step'.op = "update" /\ step'.chat_id = c /\ FullReportAsked' /\ ~IsPaid(c)) =>
            /\ Len(step'.sent) = 1
            /\ step'.sent[1].text \in UpsellTexts
            /\ step'.sent[1].keyboard = Kb.Upsell
            /\ step'.ai_calls = 0
            /\ numerology_readings' = numerology_readings
            /\ horoscope_readings' = horoscope_readings
            /\ taro_readings' = taro_readings
            /\ tarot_mode_logs' = tarot_mode_logs]_vars

\* a user who is not paid has asked for the full analysis and got the upsell
C32_Witness ==
  /\ LastUpdateOf(101)
  /\ FullReportAsked
  /\ step.user.subscription # "paid"
  /\ step.sent[1].text \in UpsellTexts
  /\ PaidOnlyRows(101) = 0

\* a paid user has a full numerology reading, a full horoscope and a tarot
\* reading of seven cards
C32_WitnessPaid ==
  /\ IsPaid(101)
  /\ numerology_exists(101, "full")
  /\ horoscope_exists(101, "full")
  /\ count_taro_readings(101, 7) > 0

(***************************************************************************)
(* SpecOnboarding: one chat that answers the onboarding questions with     *)
(* arbitrary texts and then asks tarot questions and starts payments,      *)
(* sending "Старт" and "Назад в меню" at any point                         *)
(***************************************************************************)
AfterOnboardingTexts == RetentionTexts \cup {L.Start, L.BackToMenu}

NextOnboarding ==
  \E raw_text \in (IF StateOf(101) \in OnboardingStates THEN OnboardingTexts
                   ELSE AfterOnboardingTexts),
     ai \in AiChoices(101, AiOutcomes), pay \in PayChoices(101, {"pending", "canceled"}) :
    HandleUpdate(101, raw_text, ai, pay)

SpecOnboarding == Init /\ [][NextOnboarding]_vars

OnboardingOrder ==
  {<<"start", "ask_consent">>, <<"ask_consent", "ask_name">>,
   <<"ask_name", "ask_birth_date">>, <<"ask_birth_date", "main_menu">>}

\* the text is a calendar date written DD.MM.YYYY
IsCalendarDate(text) ==
  /\ Len(text) = 10
  /\ \A i \in 1..10 : IF i \in {3, 6} THEN text[i] = 46 ELSE text[i] \in 48..57
  /\ LET day == (text[1] - 48) * 10 + (text[2] - 48)
         month == (text[4] - 48) * 10 + (text[5] - 48)
         year == (text[7] - 48) * 1000 + (text[8] - 48) * 100 + (text[9] - 48) * 10
                 + (text[10] - 48)
     IN  year >= 1 /\ month \in 1..12 /\ day \in 1..DaysIn(year, month)

\* C33: the session goes through start, ask_consent, ask_name, ask_birth_date
\* and main_menu in this order and in no other way: it leaves ask_consent only
\* on a positive reply, ask_name only on a text that is not empty and
\* ask_birth_date only on a calendar date written DD.MM.YYYY, and it never
\* enters an onboarding state again. So a session outside the onboarding
\* states has a user with a name and a birth date, and no name is stored while
\* consent has not been given.
C33_OnboardingLinearGated ==
  /\ [][\A c \in Chats :
          LET a == StateOf(c)
              b == StateOf(c)'
          IN  /\ (a # b /\ (a \in OnboardingStates \/ b \in OnboardingStates)) =>
                   <<a, b>> \in OnboardingOrder
              /\ (a = "ask_consent" /\ b # a) => is_positive(step'.text)
              /\ (a = "ask_name" /\ b # a) => step'.text # <<>>
              /\ (a = "ask_birth_date" /\ b # a) => IsCalendarDate(step'.text)]_vars
  /\ [](\A c \in Chats :
          StateOf(c) \notin OnboardingStates =>
            /\ StoredUser(c).name \notin {NoneText, <<>>}
            /\ StoredUser(c).birth_date \notin {NoneText, <<>>})
  /\ [](\A c \in Chats :
          StateOf(c) \in {"start", "ask_consent"} =>
            UserRows(c) = {} \/ StoredUser(c).name = NoneText)

\* an onboarded chat is in a sub-flow after it was refused at every gate
C33_Witness ==
  /\ StateOf(101) = "taro_ask_question"
  /\ StoredUser(101).name = X.Anna
  /\ StoredUser(101).birth_date = X.BirthIso

\* a date that does not exist has kept the chat in ask_birth_date
C33_WitnessRefused ==
  /\ LastUpdateOf(101)
  /\ step.state = "ask_birth_date"
  /\ step.text = X.BadDate
  /\ StateOf(101) = "ask_birth_date"
  /\ StoredUser(101).birth_date = NoneText

(***************************************************************************)
(* SpecTarotLimit: one onboarded chat in tarologist mode, day after day,   *)
(* while the administrator switches its subscription on and off            *)
(***************************************************************************)
LimitSpread == CHOOSE c \in SpreadCases : c.count = 3

TarotLimitTexts ==
  LET state == StateOf(101)
  IN  CASE state = "main_menu" -> {L.TarotMode}
        [] state = "tarot_mode_topic" -> {T.Work}
        [] state = "tarot_mode_timeframe" -> {T.Week}
        [] state = "tarot_mode_cards" -> {CardsMessage(LimitSpread.count), CardsMessage(2)}
        [] state = "tarot_mode_done" -> {L.OneMoreSpread, L.ToMenu}
        [] OTHER -> {L.BackToMenu}

TarotLimitAi ==
  IF StateOf(101) = "tarot_mode_timeframe" THEN {[ok |-> TRUE, content |-> LimitSpread.text]}
  ELSE IF StateOf(101) = "tarot_mode_cards" THEN AiOutcomes
  ELSE {AiFail}

NextTarotLimit ==
  \/ \E raw_text \in Onboarded(101, TarotLimitTexts), ai \in TarotLimitAi :
        HandleUpdate(101, raw_text, ai, "error")
  \/ \E subscription \in {"paid", NoneStr} : AdminEdit(101, subscription)
  \/ Tick(DayTick)

SpecTarotLimit == Init /\ [][NextTarotLimit]_vars

TarotModeRows(chat_id) ==
  BagSum(tarot_mode_logs, {row \in BagToSet(tarot_mode_logs) : row.chat_id = chat_id})

TarotModeRowsOn(chat_id, date_value) ==
  BagSum(tarot_mode_logs,
         {row \in BagToSet(tarot_mode_logs) :
            row.chat_id = chat_id /\ DateOf(row.created_at) = date_value})

TierLimit(chat_id) == IF IsPaid(chat_id) THEN 5 ELSE 1

\* the update that was handled started the mode or submitted the cards of the
\* spread
TarotModeRequest(chat_id) ==
  /\ LastUpdateOf(chat_id)
  /\ \/ step.state = "main_menu" /\ step.text = L.TarotMode
     \/ step.state = "tarot_mode_done" /\ step.text = L.OneMoreSpread
     \/ step.state = "tarot_mode_cards" /\ step.text = CardsMessage(LimitSpread.count)

\* C34: a tarot_mode_logs row is created only by an update of a chat that has
\* fewer rows today than the limit of its tier, 1 when it is not paid and 5
\* when it is; when the chat has reached the limit, starting the mode and
\* submitting the cards make no call to the completion adapter, create no row,
\* leave no tarot_mode_ key in session.data and end in main_menu.
C34_TarotModeDailyLimit ==
  [][\A c \in Chats :
       /\ TarotModeRows(c)' # TarotModeRows(c) =>
            /\ TarotModeRows(c)' = TarotModeRows(c) + 1
            /\ step'.op = "update" /\ step'.chat_id = c
            /\ TarotModeRowsOn(c, today) < TierLimit(c)
       /\ (TarotModeRequest(c)' /\ TarotModeRowsOn(c, today) >= TierLimit(c)) =>
            /\ step'.ai_calls = 0
            /\ tarot_mode_logs' = tarot_mode_logs
            /\ DOMAIN StoredSession(c)'.data \cap TarotModeKeys = {}
            /\ StoredSession(c)'.state = "main_menu"]_vars

\* a chat that is not paid was refused when it started the mode a second time
\* on the same day
C34_Witness ==
  /\ TarotModeRequest(101)
  /\ step.state = "main_menu"
  /\ ~IsPaid(101)
  /\ TarotModeRowsOn(101, today) = 1
  /\ step.sent[1].text = "tarot_mode_limit_free"
  /\ StoredSession(101).state = "main_menu"

\* a chat whose subscription was switched off while it was choosing its cards
\* was refused when it submitted them
C34_WitnessCards ==
  /\ TarotModeRequest(101)
  /\ step.state = "tarot_mode_cards"
  /\ ~IsPaid(101)
  /\ TarotModeRowsOn(101, today) = 1
  /\ step.ai_calls = 0
  /\ StoredSession(101).state = "main_menu"

\* a paid chat has used its five interpretations of the day
C34_WitnessPaid ==
  /\ TarotModeRequest(101)
  /\ IsPaid(101)
  /\ TarotModeRowsOn(101, today) = 5
  /\ step.sent[1].text = "tarot_mode_limit_paid"

(***************************************************************************)
(* SpecTwoPay: two onboarded chats that start payments and check them,     *)
(* while the scheduler runs its passes and the clock advances              *)
(***************************************************************************)
TwoPayTexts(chat_id) ==
  LET state == StateOf(chat_id)
  IN  CASE state = "main_menu" -> {L.Subscription}
        [] state = "subscription_menu" -> {L.Month1}
        [] state = "await_payment" -> {L.CheckPayment, L.BackToMenu}
        [] OTHER -> {L.BackToMenu}

TwoPayOutcomes == {"pending", "succeeded", "canceled"}

NextTwoPay ==
  \/ \E chat_id \in Chats :
       \E raw_text \in Onboarded(chat_id, TwoPayTexts(chat_id)),
          pay \in PayChoices(chat_id, TwoPayOutcomes) :
         HandleUpdate(chat_id, raw_text, AiFail, pay)
  \/ BeginPass
  \/ \E pay \in TwoPayOutcomes : PassStep(pay)
  \/ Tick(PayTick)

SpecTwoPay == Init /\ [][NextTwoPay]_vars

PaidRecords(chat_id) ==
  {i \in DOMAIN payments :
     /\ payments[i].chat_id = chat_id
     /\ payments[i].status = "succeeded"
     /\ payments[i].paid_at # NoneTime}

\* C35: a user whose subscription is paid has a payment record of its own chat
\* with status succeeded and a paid_at; a subscription becomes paid only in an
\* update or a scheduled check of that chat in which the payment adapter
\* reported succeeded for a payment whose record exists and belongs to the
\* chat, and that record is the one stored as succeeded.
C35_PaidUserHasPaid ==
  /\ [](\A c \in Chats : IsPaid(c) => PaidRecords(c) # {})
  /\ [][\A c \in Chats :
          (~IsPaid(c) /\ IsPaid(c)') =>
            /\ step'.op \in {"update", "payment_check"}
            /\ step'.chat_id = c
            /\ step'.observed = "succeeded"
            /\ \E i \in DOMAIN payments :
                 /\ payments[i].yookassa_payment_id = step'.reconciled
                 /\ payments[i].chat_id = c
                 /\ payments[i].status # "succeeded"
                 /\ i \in PaidRecords(c)']_vars

\* one chat is paid, from its own payment, while the payment of the other chat
\* is pending
C35_Witness ==
  /\ IsPaid(101)
  /\ PaidRecords(101) # {}
  /\ UserRows(202) # {} /\ ~IsPaid(202)
  /\ \E i \in DOMAIN payments : payments[i].chat_id = 202 /\ payments[i].status = "pending"

\* a scheduled check has activated the subscription of a chat
C35_WitnessScheduled ==
  /\ step.op = "payment_check"
  /\ step.observed = "succeeded"
  /\ IsPaid(step.chat_id)
  /\ PaidRecords(step.chat_id) # {}

(***************************************************************************)
(* SpecExpiry: one onboarded chat that buys a month and asks for full      *)
(* horoscopes, before and after the month is over, while the scheduler     *)
(* runs its passes                                                         *)
(***************************************************************************)
ExpiryTexts ==
  LET state == StateOf(101)
  IN  CASE state = "horoscope_ask_surname" -> {X.Surname}
        [] state = "horoscope_ask_birth_time" -> {X.Time}
        [] state = "horoscope_menu" -> {L.FullHoroscope, L.BackToMenu}
        [] OTHER -> {L.Horoscope}

ExpiryInputs == Onboarded(101, Subscriber(101, ExpiryTexts))

NextExpiry ==
  \/ \E raw_text \in ExpiryInputs, ai \in AiChoices(101, {AiOk}),
         pay \in PayChoices(101, {"pending", "succeeded"}) :
        HandleUpdate(101, raw_text, ai, pay)
  \/ BeginPass
  \/ \E pay \in {"pending", "canceled"} : PassStep(pay)
  \/ Tick(PayTick)
  \/ Expire

SpecExpiry == Init /\ [][NextExpiry]_vars

Expired(chat_id) ==
  /\ IsPaid(chat_id)
  /\ StoredUser(chat_id).subscription_expires_at # NoneTime
  /\ TimeLeq(StoredUser(chat_id).subscription_expires_at, now)

\* what an update does, the expiry date it leaves on the user left out
Outcome(session, user, text, ai, pay) ==
  [Dispatch(Begin(session, user), text, ai, pay) EXCEPT !.user.subscription_expires_at = NoneTime]

\* C36: once a user's subscription is paid, no update and no scheduler pass
\* sets it to another value, also when subscription_expires_at is in the past;
\* and what an update does never depends on subscription_expires_at: with the
\* expiry date erased from the user the same messages, rows, adapter calls
\* and session follow.
C36_SubscriptionMonotone ==
  /\ [][\A c \in Chats : IsPaid(c) => IsPaid(c)']_vars
  /\ [](UserRows(101) # {} =>
          \A raw_text \in ExpiryInputs, ai \in AiChoices(101, {AiOk}),
             pay \in PayChoices(101, {"pending", "succeeded"}) :
            Outcome(StoredSession(101), StoredUser(101), strip(raw_text), ai, pay)
              = Outcome(StoredSession(101),
                        [StoredUser(101) EXCEPT !.subscription_expires_at = NoneTime],
                        strip(raw_text), ai, pay))

\* a user whose paid month is over has been given a full horoscope
C36_Witness ==
  /\ LastUpdateOf(101)
  /\ Expired(101)
  /\ step.state = "horoscope_menu" /\ step.text = L.FullHoroscope
  /\ \E i \in DOMAIN step.sent : step.sent[i].text = "horoscope_full"
  /\ \E row \in BagToSet(horoscope_readings) :
        row.type = "full" /\ TimeLeq(StoredUser(101).subscription_expires_at, row.created_at)

\* the scheduler has run a payment check for a user whose paid month is over
C36_WitnessScheduled ==
  /\ step.op = "payment_check"
  /\ Expired(step.chat_id)

\* C37: a scheduled payment check in which the payment adapter raised or
\* reported a status that is not final leaves the session of the chat, state
\* and data, as it was stored.
C37_ScheduledCheckKeepsSession ==
  [][\A c \in Chats :
       (/\ step'.op = "payment_check"
        /\ step'.chat_id = c
        /\ step'.observed \notin {"succeeded", "canceled"}) =>
         /\ StoredSession(c)'.state = StoredSession(c).state
         /\ StoredSession(c)'.data = StoredSession(c).data]_vars

\* C38: the notification that a payment was canceled is sent once per
\* payment: once the record of a payment is stored as canceled, a later
\* reconciliation of that payment, by hand or by the scheduler, in which the
\* payment adapter reports canceled again sends nothing and leaves the state
\* of the session as it was.
C38_CanceledNotifiedOnce ==
  [][\A c \in Chats, id \in KnownPayments :
       (/\ step'.reconciled = id
        /\ step'.chat_id = c
        /\ step'.observed = "canceled"
        /\ get_payment_by_id(id).status = "canceled") =>
         /\ step'.sent = <<>>
         /\ StoredSession(c)'.state = StoredSession(c).state]_vars

\* C39: an update in which the call to the completion adapter failed creates
\* no reading: the tarot, numerology and horoscope tables are as they were,
\* so the failure is not counted against the free allowance or the daily
\* limit.
C39_FailedCompletionKeepsQuota ==
  [][(step'.op = "update" /\ step'.ai_calls > 0 /\ step'.ai_failed) =>
       /\ taro_readings' = taro_readings
       /\ numerology_readings' = numerology_readings
       /\ horoscope_readings' = horoscope_readings]_vars

(***************************************************************************)
(* SpecAdmin: one chat that onboards and buys a month, each update running *)
(* to its write-back and then saving, while the administrator opens the    *)
(* user's page and posts the form                                          *)
(***************************************************************************)
AdminTexts ==
  LET state == StateOf(101)
  IN  CASE state = "main_menu" -> {L.Subscription}
        [] state = "subscription_menu" -> {L.Month1}
        [] state = "await_payment" -> {L.CheckPayment}
        [] OTHER -> {L.BackToMenu}

NextAdmin ==
  \/ \E raw_text \in Onboarded(101, AdminTexts), pay \in PayChoices(101, {"pending", "succeeded"}) :
        UpdateRuns(101, raw_text, AiFail, pay)
  \/ UpdateSaves
  \/ StateOf(101) \notin OnboardingStates /\ AdminGets(101)
  \/ \E surname \in {X.Surname}, grant \in BOOLEAN : AdminPosts(surname, grant)

SpecAdmin == Init /\ [][NextAdmin]_vars

UserFields == FormFields \cup {"retention_message_sent_at"}

\* C40: a write of the user row by one side keeps what the other side wrote
\* since the row was read: the write-back of an update changes no field that
\* the update itself left as it had read it, and the administrator's post
\* changes no field that the administrator left as the page showed it.
C40_NoLostUserUpdate ==
  [][\A c \in Chats :
       /\ (step'.op = "update_saves" /\ step'.chat_id = c) =>
            \A f \in UserFields :
              inflight.engine.user[f] = inflight.engine.read[f] =>
                StoredUser(c)'[f] = StoredUser(c)[f]
       /\ (step'.op = "admin_post" /\ step'.chat_id = c) =>
            \A f \in UserFields :
              (f \in FormFields => step'.user[f] = inflight.admin[f]) =>
                StoredUser(c)'[f] = StoredUser(c)[f]]_vars
====
